---------------------------- MODULE Spec2Model ----------------------------
(***************************************************************************)
(* Model of src/index.js (the transcoding server, lines 1-925): the        *)
(* ingestion routes POST /upload and POST /upload-url with the HLS         *)
(* transcode they start, the reader routes GET /watch/:filename and        *)
(* GET /uploads/:filename, and the helpers they use.                       *)
(*                                                                         *)
(* The specifications share the variables:                                 *)
(*   Spec       the ingestion requests and the encoding engine,            *)
(*              interleaved as Node's event loop interleaves them;         *)
(*   SpecEnv    Spec for a server started with or without the variable     *)
(*              MAX_UPLOAD_SIZE in its environment;                        *)
(*   SpecLive   Spec with the fairness of the event loop;                  *)
(*   SpecWatch  Spec and, beside it, one viewer of the watch page;         *)
(*   SpecRange  one GET /uploads/:filename request against a stored file,  *)
(*              its Range header drawn from a bounded set of strings;      *)
(*   SpecName   the stored name of one ingestion, for every name drawn;    *)
(*   SpecMetrics  one URL ingestion run twice with different download      *)
(*              metrics (content-length header, elapsed time);             *)
(*   SpecCancel Spec with clients that go away during the encode;          *)
(*   SpecServe  Spec and, beside it, one GET /uploads/<name>;              *)
(*   SpecStream one GET /uploads/:filename streamed chunk by chunk to a    *)
(*              client that may go away;                                   *)
(*   SpecRead   the two reader routes against a filled store;              *)
(*   SpecPath   a reader route for every decoded :filename parameter.      *)
(*                                                                         *)
(* Strings that the code parses (the Range header, a bitrate such as       *)
(* '2800k') are sequences of one-character strings.  A JavaScript number   *)
(* is a record [nan, v]: NaN is a value of its own.                        *)
(***************************************************************************)
EXTENDS Integers, Sequences, FiniteSets, TLC

(***************************************************************************)
(* Bounds of the model.                                                    *)
(***************************************************************************)
\* Requests that may be in flight in Spec (request ids 1..MaxReqs).
MaxReqs == 2
\* Largest stored file size, in bytes, that SpecRange draws.
MaxFileSize == 4
\* Largest number of '-'-separated parts of a drawn Range header.
MaxParts == 3
\* Largest length, in code units, of a name that SpecName draws.
MaxNameLen == 3
\* Largest number of path segments a drawn :filename parameter decodes to.
MaxSegs == 3

(***************************************************************************)
(* JavaScript numbers and strings.                                         *)
(***************************************************************************)
NaN == [nan |-> TRUE, v |-> 0]
Num(n) == [nan |-> FALSE, v |-> n]

\* a >= b ; false when either side is NaN
NumGe(a, b) == ~a.nan /\ ~b.nan /\ a.v >= b.v
\* a > b ; false when either side is NaN
NumGt(a, b) == ~a.nan /\ ~b.nan /\ a.v > b.v
NumSub(a, b) == IF a.nan \/ b.nan THEN NaN ELSE Num(a.v - b.v)
NumAdd(a, b) == IF a.nan \/ b.nan THEN NaN ELSE Num(a.v + b.v)
NumMul(a, b) == IF a.nan \/ b.nan THEN NaN ELSE Num(a.v * b.v)

Digits == {"0", "1", "2", "3", "4", "5", "6", "7", "8", "9"}
DigitVal(c) ==
    CASE c = "0" -> 0 [] c = "1" -> 1 [] c = "2" -> 2 [] c = "3" -> 3
      [] c = "4" -> 4 [] c = "5" -> 5 [] c = "6" -> 6 [] c = "7" -> 7
      [] c = "8" -> 8 [] c = "9" -> 9
\* StrWhiteSpaceChar, the code units parseInt skips at the start: TAB, LF,
\* VT, FF, CR, space, NBSP, the Unicode space separators, LS, PS and the
\* BOM.  A code unit that has no escape in a string of the model is written
\* by its name, "U+00A0".
WhiteSpace ==
    {"\t", "\n", "U+000B", "\f", "\r", " ", "U+00A0", "U+1680",
     "U+2000", "U+2001", "U+2002", "U+2003", "U+2004", "U+2005", "U+2006",
     "U+2007", "U+2008", "U+2009", "U+200A", "U+2028", "U+2029", "U+202F",
     "U+205F", "U+3000", "U+FEFF"}

RECURSIVE TrimStart(_)
\* s without its leading white space, as parseInt reads it.
TrimStart(s) ==
    IF s # <<>> /\ Head(s) \in WhiteSpace THEN TrimStart(Tail(s)) ELSE s

RECURSIVE DigitRun(_)
\* The longest prefix of s made of decimal digits.
DigitRun(s) ==
    IF s # <<>> /\ Head(s) \in Digits
    THEN <<Head(s)>> \o DigitRun(Tail(s))
    ELSE <<>>

RECURSIVE DecValue(_)
DecValue(ds) ==
    IF ds = <<>> THEN 0
    ELSE 10 * DecValue(SubSeq(ds, 1, Len(ds) - 1)) + DigitVal(ds[Len(ds)])

\* parseInt(s, 10): leading white space, an optional sign, then the longest
\* run of digits; NaN when there is no digit.
ParseInt(s) ==
    LET t    == TrimStart(s)
        neg  == t # <<>> /\ Head(t) = "-"
        u    == IF t # <<>> /\ Head(t) \in {"+", "-"} THEN Tail(t) ELSE t
        ds   == DigitRun(u)
    IN  IF ds = <<>> THEN NaN
        ELSE Num(IF neg THEN 0 - DecValue(ds) ELSE DecValue(ds))

\* p is a prefix of s
StartsWith(s, p) == Len(s) >= Len(p) /\ SubSeq(s, 1, Len(p)) = p

RECURSIVE ReplaceFirst(_, _)
\* s.replace(/pat/, ""): s without the first occurrence of pat.
ReplaceFirst(s, pat) ==
    IF s = <<>> THEN <<>>
    ELSE IF StartsWith(s, pat) THEN SubSeq(s, Len(pat) + 1, Len(s))
    ELSE <<Head(s)>> \o ReplaceFirst(Tail(s), pat)

RECURSIVE Split(_, _)
\* s.split(sep) for a one-character sep: always at least one part.
Split(s, sep) ==
    IF \A i \in 1..Len(s) : s[i] # sep THEN <<s>>
    ELSE LET k == CHOOSE i \in 1..Len(s) :
                      s[i] = sep /\ \A j \in 1..(i - 1) : s[j] # sep
         IN  <<SubSeq(s, 1, k - 1)>> \o Split(SubSeq(s, k + 1, Len(s)), sep)

RECURSIVE Join(_, _)
Join(parts, sep) ==
    IF Len(parts) = 0 THEN <<>>
    ELSE IF Len(parts) = 1 THEN parts[1]
    ELSE parts[1] \o <<sep>> \o Join(Tail(parts), sep)

BytesEq == <<"b", "y", "t", "e", "s", "=">>


(***************************************************************************)
(* File names, MIME types and the asset store.                             *)
(***************************************************************************)
\* A stored name is its stem and its extension, the extension as the
\* sequence of its code units: 'a.mp4' is ["a", <<".", "m", "p", "4">>].
NoExt == <<>>
FileName(stem, ext) == [stem |-> stem, ext |-> ext]

\* path.extname(filename)
ExtName(name) == name.ext
\* path.parse(filename).name
ParsedName(name) == name.stem

\* The letters of ASCII.
LowerCase ==
    {"a", "b", "c", "d", "e", "f", "g", "h", "i", "j", "k", "l", "m", "n", "o", "p", "q", "r", "s", "t", "u", "v", "w", "x", "y", "z"}
UpperCase ==
    {"A", "B", "C", "D", "E", "F", "G", "H", "I", "J", "K", "L", "M", "N", "O", "P", "Q", "R", "S", "T", "U", "V", "W", "X", "Y", "Z"}
\* The printable units of ASCII that are neither letters nor digits; the
\* double quote, the backquote and the backslash are written by their names.
Punctuation ==
    {" ", "!", "U+0022", "#", "$", "%", "&", "'", "(", ")", "*", "+", ",",
     "-", ".", "/", ":", ";", "<", "=", ">", "?", "@", "[", "U+005C", "]",
     "^", "_", "U+0060", "{", "|", "}", "~"}

\* The code units of the model's strings that have no other case: the
\* lower-case letters, the digits, the punctuation and the white space of
\* ASCII and beyond, U+007F, e acute and the combining dot above (U+0307).
Caseless ==
    LowerCase \cup Digits \cup Punctuation \cup WhiteSpace
    \cup {"U+007F", "é", "U+0307"}

\* The lower-case form of one code unit, as the units it becomes.  Beyond
\* A-Z the model spells three cased units: E acute, the Kelvin sign
\* (U+212A), whose lower case is the ASCII 'k', and the capital I with dot
\* above (U+0130), which becomes two units.  The operator is defined on
\* these units and on the caseless ones, and on no other: the rest of
\* Unicode's cased units is outside the strings of the model.
LowerChar(c) ==
    CASE c = "A" -> <<"a">> [] c = "B" -> <<"b">> [] c = "C" -> <<"c">>
      [] c = "D" -> <<"d">> [] c = "E" -> <<"e">> [] c = "F" -> <<"f">>
      [] c = "G" -> <<"g">> [] c = "H" -> <<"h">> [] c = "I" -> <<"i">>
      [] c = "J" -> <<"j">> [] c = "K" -> <<"k">> [] c = "L" -> <<"l">>
      [] c = "M" -> <<"m">> [] c = "N" -> <<"n">> [] c = "O" -> <<"o">>
      [] c = "P" -> <<"p">> [] c = "Q" -> <<"q">> [] c = "R" -> <<"r">>
      [] c = "S" -> <<"s">> [] c = "T" -> <<"t">> [] c = "U" -> <<"u">>
      [] c = "V" -> <<"v">> [] c = "W" -> <<"w">> [] c = "X" -> <<"x">>
      [] c = "Y" -> <<"y">> [] c = "Z" -> <<"z">>
      [] c = "É" -> <<"é">>
      [] c = "U+212A" -> <<"k">>
      [] c = "U+0130" -> <<"i", "U+0307">>
      [] c \in Caseless -> <<c>>

RECURSIVE ToLowerCase(_)
\* String.prototype.toLowerCase: the lower-case forms of the units, in order.
ToLowerCase(ext) ==
    IF ext = <<>> THEN <<>>
    ELSE LowerChar(Head(ext)) \o ToLowerCase(Tail(ext))

mediaMimeTypes ==
    {"video/mp4", "video/mkv", "video/webm", "video/avi", "video/quicktime"}

\* getMimeType(filename): by lower-cased extension, else the generic type.
getMimeType(name) ==
    LET ext == ToLowerCase(ExtName(name))
    IN  CASE ext = <<".", "m", "p", "4">>  -> "video/mp4"
          [] ext = <<".", "m", "k", "v">>  -> "video/x-matroska"
          [] ext = <<".", "w", "e", "b", "m">> -> "video/webm"
          [] ext = <<".", "a", "v", "i">>  -> "video/x-msvideo"
          [] ext = <<".", "m", "o", "v">>  -> "video/quicktime"
          [] ext = <<".", "p", "d", "f">>  -> "application/pdf"
          [] ext = <<".", "d", "o", "c", "x">> ->
               "application/vnd.openxmlformats-officedocument.wordprocessingml.document"
          [] ext = <<".", "t", "x", "t">>  -> "text/plain"
          [] ext = <<".", "m", "3", "u", "8">> -> "application/x-mpegURL"
          [] ext = <<".", "t", "s">>   -> "video/MP2T"
          [] OTHER -> "application/octet-stream"

\* The names the model stores or asks for under uploadDir.
StoreNames ==
    { FileName("a", <<".", "m", "p", "4">>), FileName("a", <<".", "m", "k", "v">>),
      FileName("b", <<".", "t", "x", "t">>), FileName("c", <<".", "M", "P", "4">>),
      FileName(".a", <<".", "m", "k", "v">>) }

\* A file of the store: absent, or present with its bytes.
NoFile == [there |-> FALSE, data |-> <<>>]
File(data) == [there |-> TRUE, data |-> data]

\* The bytes of a stored file of the given size: byte i is 100 + i.
FileBytes(size) == [i \in 1..size |-> 100 + (i - 1)]

\* The characters the class [a-zA-Z0-9.\-_] accepts.
SafeChars == LowerCase \cup UpperCase \cup Digits \cup {".", "-", "_"}

RECURSIVE ReplaceFirstUnsafe(_)
\* A replace without the g flag: only the first character outside the class.
ReplaceFirstUnsafe(filename) ==
    IF filename = <<>> THEN <<>>
    ELSE IF Head(filename) \notin SafeChars THEN <<"_">> \o Tail(filename)
    ELSE <<Head(filename)>> \o ReplaceFirstUnsafe(Tail(filename))

\* filename.replace(/[^a-zA-Z0-9.\-_]/g, '_'), on the code units of a string.
sanitizeFilename(filename) ==
    [i \in 1..Len(filename) |->
        IF filename[i] \in SafeChars THEN filename[i] ELSE "_"]

\* The functions a plain object inherits from Object.prototype, by the name
\* of the property that holds them.
PrototypeFunctions ==
    {"constructor", "__defineGetter__", "__defineSetter__", "hasOwnProperty",
     "__lookupGetter__", "__lookupSetter__", "isPrototypeOf",
     "propertyIsEnumerable", "toString", "valueOf", "toLocaleString"}

\* The name of the function held by an inherited property.
FunctionName(property) ==
    CASE property = "constructor" ->
           <<"O", "b", "j", "e", "c", "t">>
      [] property = "__defineGetter__" ->
           <<"_", "_", "d", "e", "f", "i", "n", "e", "G", "e", "t", "t", "e",
             "r", "_", "_">>
      [] property = "__defineSetter__" ->
           <<"_", "_", "d", "e", "f", "i", "n", "e", "S", "e", "t", "t", "e",
             "r", "_", "_">>
      [] property = "hasOwnProperty" ->
           <<"h", "a", "s", "O", "w", "n", "P", "r", "o", "p", "e", "r", "t",
             "y">>
      [] property = "__lookupGetter__" ->
           <<"_", "_", "l", "o", "o", "k", "u", "p", "G", "e", "t", "t", "e",
             "r", "_", "_">>
      [] property = "__lookupSetter__" ->
           <<"_", "_", "l", "o", "o", "k", "u", "p", "S", "e", "t", "t", "e",
             "r", "_", "_">>
      [] property = "isPrototypeOf" ->
           <<"i", "s", "P", "r", "o", "t", "o", "t", "y", "p", "e", "O", "f">>
      [] property = "propertyIsEnumerable" ->
           <<"p", "r", "o", "p", "e", "r", "t", "y", "I", "s", "E", "n", "u",
             "m", "e", "r", "a", "b", "l", "e">>
      [] property = "toString" ->
           <<"t", "o", "S", "t", "r", "i", "n", "g">>
      [] property = "valueOf" ->
           <<"v", "a", "l", "u", "e", "O", "f">>
      [] property = "toLocaleString" ->
           <<"t", "o", "L", "o", "c", "a", "l", "e", "S", "t", "r", "i", "n",
             "g">>

\* The text of a built-in function: 'function NAME() { [native code] }'.
NativeFunctionText(name) ==
    <<"f", "u", "n", "c", "t", "i", "o", "n", " ">> \o name
    \o <<"(", ")", " ", "{", " ", "[", "n", "a", "t", "i", "v", "e", " ",
         "c", "o", "d", "e", "]", " ", "}">>

\* getExtensionFromMime(mimeType); "" stands for an absent header.  The
\* table is a plain object read with mimeToExt[mimeType]: a header that
\* names a property of Object.prototype finds the inherited value, which is
\* truthy, and 'downloaded-file' + ext appends its text: that of a built-in
\* function, or '[object Object]' for '__proto__'.
getExtensionFromMime(mimeType) ==
    CASE mimeType = "video/mp4"        -> <<".", "m", "p", "4">>
      [] mimeType = "video/x-matroska" -> <<".", "m", "k", "v">>
      [] mimeType = "video/webm"       -> <<".", "w", "e", "b", "m">>
      [] mimeType = "video/x-msvideo"  -> <<".", "a", "v", "i">>
      [] mimeType = "video/quicktime"  -> <<".", "m", "o", "v">>
      [] mimeType = "application/pdf"  -> <<".", "p", "d", "f">>
      [] mimeType =
           "application/vnd.openxmlformats-officedocument.wordprocessingml.document"
                                       -> <<".", "d", "o", "c", "x">>
      [] mimeType = "text/plain"       -> <<".", "t", "x", "t">>
      [] mimeType = "application/x-mpegURL" -> <<".", "m", "3", "u", "8">>
      [] mimeType = "video/MP2T"       -> <<".", "t", "s">>
      [] mimeType \in PrototypeFunctions ->
           NativeFunctionText(FunctionName(mimeType))
      [] mimeType = "__proto__" ->
           <<"[", "o", "b", "j", "e", "c", "t", " ", "O", "b", "j", "e", "c",
             "t", "]">>
      [] OTHER -> <<>>

RECURSIVE StripTrailingSlashes(_)
StripTrailingSlashes(p) ==
    IF p # <<>> /\ p[Len(p)] = "/"
    THEN StripTrailingSlashes(SubSeq(p, 1, Len(p) - 1))
    ELSE p

\* path.basename(p): what follows the last '/', trailing '/' dropped.
BaseName(p) ==
    LET parts == Split(StripTrailingSlashes(p), "/")
    IN  parts[Len(parts)]

\* The stored name multer's filename callback gives an upload.
MulterFilename(originalName) == sanitizeFilename(originalName)

\* The stored name POST /upload-url derives from the URL's pathname and the
\* response's content-type header.
UrlFilename(pathname, contentType) ==
    LET base == BaseName(pathname)
        filename ==
            IF base = <<>> \/ base = <<"/">>
            THEN <<"d", "o", "w", "n", "l", "o", "a", "d", "e", "d", "-",
                   "f", "i", "l", "e">> \o getExtensionFromMime(contentType)
            ELSE base
    IN  sanitizeFilename(filename)

VARIABLES
    files,      \* uploadDir: stored name -> NoFile or File(bytes)
    dirs,       \* the HLS output directories that exist (by stem)
    seg,        \* per output directory: its rendition playlists and segments
    master,     \* per output directory: <<>> or <<content of master.m3u8>>
    pc,         \* per ingestion request: where its handler stands
    req,        \* per ingestion request: route, stored name, MIME type
    engine,     \* per ingestion request: its FFmpeg command
    resp,       \* per ingestion request: the HTTP response it has sent
    wrote,      \* per ingestion request: it has written master.m3u8
    jobOf,      \* per stored name: the request that last started an encode
    watch,      \* the GET /watch/:filename response and what was on disk
    gReq,       \* the GET /uploads/:filename request: name and Range header
    gResp,      \* its response; status 0 while none has been sent
    nameIn,     \* a name given to ingestion: its text and a content type
    nameOut,    \* the stored name derived from it, and by which route
    runs,       \* two runs of one URL ingestion: content-length, elapsed ms
    outcome,    \* per run: how it ended; status 0 while it has not
    invoked,    \* per request: the FFmpeg commands run, each with its outputs
    gone,       \* per request: its client has closed the connection
    stream,     \* the read stream of the GET request and its connection
    pathReq,    \* a reader request by its decoded :filename parameter
    pathRes,    \* the paths that request made the server check, stat and read
    env,        \* process.env.MAX_UPLOAD_SIZE, as a text or not set
    writer      \* per request: the write stream of its URL download

vars == <<files, dirs, seg, master, pc, req, engine, resp, wrote, jobOf,
          watch, gReq, gResp, nameIn, nameOut, runs, outcome, invoked, gone,
          stream, pathReq, pathRes, env, writer>>
ingestVars == <<files, dirs, seg, master, pc, req, engine, resp, wrote, jobOf,
                watch, invoked, gone, writer>>
orchVars == <<ingestVars, stream, pathReq, pathRes, env>>
nameVars == <<nameIn, nameOut>>
runVars == <<runs, outcome>>
pathVars == <<pathReq, pathRes>>
readVars == <<gReq, gResp, nameIn, nameOut, runs, outcome, stream, pathReq,
              pathRes, env>>
getVars == <<readVars, gone, writer>>

(***************************************************************************)
(* GET /uploads/:filename, the range-aware media server.                   *)
(***************************************************************************)
\* A request header that is absent (undefined) or present with its text.
NoHeader == [present |-> FALSE, text |-> <<>>]
Header(text) == [present |-> TRUE, text |-> text]
\* 'if (range)': an absent header and the empty string are falsy.
Truthy(h) == h.present /\ h.text # <<>>

\* range.replace(/bytes=/, "").split("-")
RangeParts(text) == Split(ReplaceFirst(text, BytesEq), "-")
\* parseInt(parts[0], 10)
RangeStart(parts) == ParseInt(parts[1])
\* A default end one past the last byte.
RangeEndPastFile(parts, fileSize) ==
    IF Len(parts) >= 2 /\ parts[2] # <<>>
    THEN ParseInt(parts[2])
    ELSE Num(fileSize)

\* parts[1] ? parseInt(parts[1], 10) : fileSize - 1
RangeEnd(parts, fileSize) ==
    IF Len(parts) >= 2 /\ parts[2] # <<>>
    THEN ParseInt(parts[2])
    ELSE Num(fileSize - 1)

\* fs.createReadStream(path, {start, end}) validates its options before any
\* file is opened: each must be an integer >= 0, and start <= end; it throws
\* ERR_OUT_OF_RANGE otherwise.
CreateReadStreamThrows(start, end) ==
    \/ start.nan \/ end.nan
    \/ start.v < 0 \/ end.v < 0
    \/ start.v > end.v

NoResponse ==
    [status |-> 0, via |-> "none", contentRange |-> <<>>, acceptRanges |-> "",
     contentLength |-> <<>>, contentType |-> "", body |-> <<>>,
     text |-> [msg |-> "", args |-> <<>>], opened |-> FALSE]

\* res.status(code).send(msg): a text body, no read stream.
SendText(code, msg, args) ==
    [NoResponse EXCEPT !.status = code, !.via = "handler",
                       !.text = [msg |-> msg, args |-> args]]

\* The error-handling middleware for an exception that is no MulterError:
\* res.status(500).json({ error: err.message }).
ErrorMiddleware(message) ==
    [NoResponse EXCEPT !.status = 500, !.via = "errorMiddleware",
                       !.text = [msg |-> message, args |-> <<>>]]

\* The read stream of a response and the connection it is piped to: no
\* stream yet, or the state of its file descriptor, the offset of the next
\* byte it reads, the last offset of its window (none: up to the end of the
\* file), the bytes of a file that was unlinked while the descriptor was
\* open, whether the stream is piped to the response, and whether the
\* client is there.
NoStream ==
    [fd |-> "none", pos |-> 0, last |-> <<>>, orphan |-> <<>>,
     piped |-> FALSE, client |-> "connected"]

\* fs.createReadStream(filePath, {start, end}).pipe(res) as it stands when
\* the handler returns: the stream is created and piped, the open of the
\* file is queued and nothing is read yet.
CreateReadStream(start, last) ==
    [NoStream EXCEPT !.fd = "pending", !.pos = start, !.last = last,
                     !.piped = TRUE]

\* The range branch of the handler.
\* start >= fileSize
StartBeyondFile(start, fileSize) == NumGe(start, Num(fileSize))
\* A chunk size that forgets that end is inclusive.
ChunkSizeExclusive(start, end) == NumSub(end, start)

\* (end - start) + 1
ChunkSize(start, end) == NumAdd(NumSub(end, start), Num(1))

RangeBranch(text, fileSize, mimeType) ==
    LET parts == RangeParts(text)
        start == RangeStart(parts)
        end   == RangeEnd(parts, fileSize)
        chunksize == ChunkSize(start, end)
    IN  IF StartBeyondFile(start, fileSize)
        THEN SendText(416, "Requested range not satisfiable",
                      <<start, Num(fileSize)>>)
        ELSE IF CreateReadStreamThrows(start, end)
        THEN ErrorMiddleware("ERR_OUT_OF_RANGE")
        ELSE [NoResponse EXCEPT
                 !.status = 206, !.via = "handler",
                 !.contentRange = <<[start |-> start, end |-> end,
                                     size |-> fileSize]>>,
                 !.acceptRanges = "bytes",
                 !.contentLength = <<chunksize>>,
                 !.contentType = mimeType,
                 !.opened = TRUE]

\* The branch without a Range header: the whole file.
FullBranch(fileSize, mimeType) ==
    [NoResponse EXCEPT
        !.status = 200, !.via = "handler",
        !.contentLength = <<Num(fileSize)>>,
        !.contentType = mimeType,
        !.opened = TRUE]

\* app.get('/uploads/:filename'): the response to a request for `name` with
\* Range header `range`, the store being `store`.
UploadsHandler(store, name, range) ==
    IF ~store[name].there
    THEN SendText(404, "File not found.", <<>>)
    ELSE IF getMimeType(name) \notin mediaMimeTypes
    THEN SendText(400, "File is not a supported media type.", <<>>)
    ELSE LET fileSize == Len(store[name].data)
         IN  IF Truthy(range)
             THEN RangeBranch(range.text, fileSize, getMimeType(name))
             ELSE FullBranch(fileSize, getMimeType(name))

\* The read stream the handler has created when it answers `response`: the
\* window of the Content-Range it computed, or the whole file.
StreamOf(response) ==
    IF response.via = "handler" /\ response.opened
    THEN IF response.contentRange # <<>>
         THEN CreateReadStream(response.contentRange[1].start.v,
                               <<response.contentRange[1].end.v>>)
         ELSE CreateReadStream(0, <<>>)
    ELSE NoStream

\* The value of a hexadecimal digit, -1 for any other unit.
HexValue(c) ==
    CASE c \in Digits -> DigitVal(c)
      [] c \in {"a", "A"} -> 10 [] c \in {"b", "B"} -> 11
      [] c \in {"c", "C"} -> 12 [] c \in {"d", "D"} -> 13
      [] c \in {"e", "E"} -> 14 [] c \in {"f", "F"} -> 15
      [] OTHER -> -1

\* The octet of the escape that starts at unit i of text, a '%' and two
\* hexadecimal digits; -1 when there is no such escape there.
EscapeAt(text, i) ==
    IF i + 2 > Len(text) THEN -1
    ELSE IF text[i] # "%" THEN -1
    ELSE IF HexValue(text[i + 1]) = -1 \/ HexValue(text[i + 2]) = -1 THEN -1
    ELSE 16 * HexValue(text[i + 1]) + HexValue(text[i + 2])

\* The code units of a code point: itself, or its surrogate pair.  A unit
\* is written as the model's strings write it: the unit itself in ASCII
\* (U+0000 first in AsciiUnits) and for the two accented letters the model
\* spells, its name "U+XXXX" otherwise.
CodeUnits(cp) ==
    LET AsciiUnits ==
          <<
          "U+0000", "U+0001", "U+0002", "U+0003", "U+0004", "U+0005", "U+0006", "U+0007",
          "U+0008", "\t", "\n", "U+000B", "\f", "\r", "U+000E", "U+000F",
          "U+0010", "U+0011", "U+0012", "U+0013", "U+0014", "U+0015", "U+0016", "U+0017",
          "U+0018", "U+0019", "U+001A", "U+001B", "U+001C", "U+001D", "U+001E", "U+001F",
          " ", "!", "U+0022", "#", "$", "%", "&", "'",
          "(", ")", "*", "+", ",", "-", ".", "/",
          "0", "1", "2", "3", "4", "5", "6", "7",
          "8", "9", ":", ";", "<", "=", ">", "?",
          "@", "A", "B", "C", "D", "E", "F", "G",
          "H", "I", "J", "K", "L", "M", "N", "O",
          "P", "Q", "R", "S", "T", "U", "V", "W",
          "X", "Y", "Z", "[", "U+005C", "]", "^", "_",
          "U+0060", "a", "b", "c", "d", "e", "f", "g",
          "h", "i", "j", "k", "l", "m", "n", "o",
          "p", "q", "r", "s", "t", "u", "v", "w",
          "x", "y", "z", "{", "|", "}", "~", "U+007F" >>
        HexDigitUpper ==
          <<"0", "1", "2", "3", "4", "5", "6", "7",
            "8", "9", "A", "B", "C", "D", "E", "F">>
        CodeUnit(v) ==
          IF v < 128 THEN AsciiUnits[v + 1]
          ELSE IF v = 233 THEN "é"
          ELSE IF v = 201 THEN "É"
          ELSE "U+" \o HexDigitUpper[(v \div 4096) + 1]
                    \o HexDigitUpper[((v \div 256) % 16) + 1]
                    \o HexDigitUpper[((v \div 16) % 16) + 1]
                    \o HexDigitUpper[(v % 16) + 1]
    IN  IF cp < 65536 THEN <<CodeUnit(cp)>>
        ELSE <<CodeUnit(55296 + ((cp - 65536) \div 1024)),
               CodeUnit(56320 + ((cp - 65536) % 1024))>>

\* The number of octets of the UTF-8 sequence that the octet starts: 1 for
\* an ASCII octet, 2 to 4 for a lead octet, 0 for an octet that starts none
\* (a continuation octet, or 0xF8 and above).
Utf8Length(octet) ==
    IF octet < 128 THEN 1
    ELSE IF octet < 192 THEN 0
    ELSE IF octet < 224 THEN 2
    ELSE IF octet < 240 THEN 3
    ELSE IF octet < 248 THEN 4
    ELSE 0

\* The code point of a UTF-8 sequence of 2 to 4 octets whose continuation
\* octets are in 0x80..0xBF; -1 for an overlong form, a surrogate and a
\* value beyond U+10FFFF.
Utf8CodePoint(octets) ==
    LET n == Len(octets)
        cp == IF n = 2 THEN (octets[1] - 192) * 64 + (octets[2] - 128)
              ELSE IF n = 3
              THEN (octets[1] - 224) * 4096 + (octets[2] - 128) * 64
                   + (octets[3] - 128)
              ELSE (octets[1] - 240) * 262144 + (octets[2] - 128) * 4096
                   + (octets[3] - 128) * 64 + (octets[4] - 128)
        least == IF n = 2 THEN 128 ELSE IF n = 3 THEN 2048 ELSE 65536
    IN  IF cp < least \/ cp > 1114111 \/ cp \in 55296..57343 THEN -1 ELSE cp

\* decodeURIComponent throws: the outcome that is no text.
URIError == [ok |-> FALSE, text |-> <<>>]

RECURSIVE DecodeURIComponent(_)
\* decodeURIComponent(text): every escape, or run of escapes, that is the
\* UTF-8 form of a code point becomes the code units of that code point;
\* a '%' that starts no such escape throws URIError.  Express decodes the
\* route parameter with it, and so does express.static the path it serves.
DecodeURIComponent(text) ==
    IF text = <<>> THEN [ok |-> TRUE, text |-> <<>>]
    ELSE IF Head(text) # "%"
    THEN LET rest == DecodeURIComponent(Tail(text))
         IN  IF rest.ok THEN [ok |-> TRUE, text |-> <<Head(text)>> \o rest.text] ELSE URIError
    ELSE LET first == EscapeAt(text, 1)
             n == IF first = -1 THEN 0 ELSE Utf8Length(first)
             octets == [j \in 1..n |-> EscapeAt(text, 3 * (j - 1) + 1)]
             cp == IF n = 1 THEN first
                   ELSE IF n = 0 \/ \E j \in 2..n : octets[j] \notin 128..191
                   THEN -1
                   ELSE Utf8CodePoint(octets)
         IN  IF cp = -1 THEN URIError
             ELSE LET rest == DecodeURIComponent(SubSeq(text, 3 * n + 1, Len(text)))
                  IN  IF rest.ok THEN [ok |-> TRUE, text |-> CodeUnits(cp) \o rest.text]
                      ELSE URIError

\* path.extname of the last segment of req.path, the text as it was sent:
\* from its last '.' on; '' when it has no '.', when the only '.' is its
\* first unit, and for '..'.
RawExtName(raw) ==
    LET dots == {i \in 1..Len(raw) : raw[i] = "."}
    IN  IF dots = {} THEN NoExt
        ELSE LET k == CHOOSE i \in dots : \A j \in dots : j <= i
             IN  IF k = 1 \/ raw = <<".", ".">> THEN NoExt
                 ELSE SubSeq(raw, k, Len(raw))

\* app.use('/uploads', ...): path.basename(req.path) is the last segment of
\* the URL as sent, not decoded.  When the MIME type of its extension is a
\* media type the request goes on to the route handler; any other is given
\* to express.static first.
GoesToStatic(raw) ==
    getMimeType(FileName("", RawExtName(raw))) \notin mediaMimeTypes

\* express.static(uploadDir) is a library (serve-static over send).  A file
\* that is there and is no dotfile is answered by it: 200, or 206 for a range
\* it accepts; a range it cannot satisfy is a 416 error that it forwards with
\* next(err), which the error-handling middleware turns into a 500.  A file
\* that is not there, and a dotfile (ignored by default), fall through with
\* next() to the routes.
StaticResponse(code, store, name) ==
    [NoResponse EXCEPT !.status = code, !.via = "static",
                       !.opened = TRUE]

\* The names of the model that begin with a dot.
Dotfiles == { FileName(".a", <<".", "m", "k", "v">>) }

StaticOutcomes(store, name, range) ==
    {StaticResponse(200, store, name)}
    \cup (IF Truthy(range)
          THEN {StaticResponse(206, store, name),
                ErrorMiddleware("Range Not Satisfiable")}
          ELSE {})

UploadsResponses(store, name, raw, range) ==
    IF GoesToStatic(raw) /\ store[name].there /\ name \notin Dotfiles
    THEN StaticOutcomes(store, name, range)
    ELSE {UploadsHandler(store, name, range)}


(***************************************************************************)
(* The path a reader route resolves its :filename parameter to.            *)
(***************************************************************************)
\* The parameter after Express has decoded it: ':filename' matches one raw
\* segment, in which %2F decodes to '/', so the value is a sequence of
\* segments for path.join.  '..' is the segment that goes up.
DotDot == FileName("..", NoExt)
NoPathReq == [filename |-> <<>>, beside |-> FALSE]
NoPathRes ==
    [route |-> "none", status |-> 0, via |-> "none",
     checked |-> <<>>, stated |-> <<>>, read |-> <<>>]

\* A place in the file system relative to uploadDir: `up` levels above it,
\* then down along `segs`.
Place(up, segs) == [up |-> up, segs |-> segs]

RECURSIVE Normalize(_, _)
\* path.join(uploadDir, filename): the segments of filename applied to the
\* place `at`, each '..' removing the segment before it.
Normalize(at, segs) ==
    IF segs = <<>> THEN at
    ELSE IF Head(segs) = DotDot
    THEN IF at.segs = <<>>
         THEN Normalize(Place(at.up + 1, <<>>), Tail(segs))
         ELSE Normalize(Place(at.up, SubSeq(at.segs, 1, Len(at.segs) - 1)),
                        Tail(segs))
    ELSE Normalize(Place(at.up, Append(at.segs, Head(segs))), Tail(segs))

\* The place is uploadDir or lies below it.
InsideRoot(place) == place.up = 0

\* const filePath = path.join(uploadDir, filename)
PathJoin(filename) == Normalize(Place(0, <<>>), filename)

\* fs.existsSync(place): the directories above uploadDir and uploadDir
\* itself, the stored files and packages below it and, when there is one,
\* the file 'a.mp4' beside uploadDir.
PlaceExists(disk, beside, place) ==
    IF place.up > 0
    THEN \/ place.segs = <<>>
         \/ beside /\ place.up = 1 /\ place.segs = <<FileName("a", <<".", "m", "p", "4">>)>>
    ELSE \/ place.segs = <<>>
         \/ Len(place.segs) = 1 /\ place.segs[1] \in DOMAIN disk.files
                                /\ disk.files[place.segs[1]].there
         \/ Len(place.segs) = 1 /\ place.segs[1].ext = NoExt
                                /\ place.segs[1].stem \in disk.dirs
         \/ Len(place.segs) = 2 /\ place.segs[1].ext = NoExt
                                /\ place.segs[1].stem \in disk.dirs
                                /\ place.segs[2] = FileName("master", <<".", "m", "3", "u", "8">>)
                                /\ disk.master[place.segs[1].stem] # <<>>

\* getMimeType(filename): path.extname of a joined name is the extension of
\* its last segment.
PathMimeType(filename) == getMimeType(filename[Len(filename)])

\* express.static for the parameter: send refuses a path with a '..'
\* segment before it looks at any file and the request falls through; else
\* it serves the file of that path below its root, if there is one.
StaticServesPath(disk, beside, filename) ==
    /\ PathMimeType(filename) \notin mediaMimeTypes
    /\ DotDot \notin {filename[i] : i \in 1..Len(filename)}
    /\ \A i \in 1..Len(filename) : filename[i] \notin Dotfiles
    /\ Len(PathJoin(filename).segs) \in {1, 2}
    /\ PathJoin(filename).segs[Len(PathJoin(filename).segs)].ext # NoExt
    /\ PlaceExists(disk, beside, PathJoin(filename))

\* GET /uploads/<filename>: the places the request makes the server check
\* (existsSync), stat (statSync) and read (createReadStream).
UploadsPathAnswer(disk, beside, filename) ==
    LET filePath == PathJoin(filename)
    IN  IF StaticServesPath(disk, beside, filename)
        THEN [NoPathRes EXCEPT !.route = "uploads", !.status = 200,
                               !.via = "static",
                               !.checked = <<filePath>>,
                               !.stated = <<filePath>>, !.read = <<filePath>>]
        ELSE IF ~PlaceExists(disk, beside, filePath)
        THEN [NoPathRes EXCEPT !.route = "uploads", !.status = 404,
                               !.via = "handler", !.checked = <<filePath>>]
        ELSE IF PathMimeType(filename) \notin mediaMimeTypes
        THEN [NoPathRes EXCEPT !.route = "uploads", !.status = 400,
                               !.via = "handler", !.checked = <<filePath>>]
        ELSE [NoPathRes EXCEPT !.route = "uploads", !.status = 200,
                               !.via = "handler",
                               !.checked = <<filePath>>,
                               !.stated = <<filePath>>, !.read = <<filePath>>]

\* GET /watch/<filename>: existsSync and statSync of the joined path, then
\* existsSync of the master playlist in the directory named by
\* path.parse(filename).name, which is the stem of the last segment.
WatchPathAnswer(disk, beside, filename) ==
    LET filePath == PathJoin(filename)
        masterPlaylistPath ==
            Place(0, <<FileName(ParsedName(filename[Len(filename)]), NoExt),
                       FileName("master", <<".", "m", "3", "u", "8">>)>>)
    IN  IF ~PlaceExists(disk, beside, filePath)
        THEN [NoPathRes EXCEPT !.route = "watch", !.status = 404,
                               !.via = "handler", !.checked = <<filePath>>]
        ELSE IF PathMimeType(filename) \notin mediaMimeTypes
        THEN [NoPathRes EXCEPT !.route = "watch", !.status = 400,
                               !.via = "handler", !.checked = <<filePath>>]
        ELSE [NoPathRes EXCEPT
                 !.route = "watch",
                 !.status = IF PlaceExists(disk, beside, masterPlaylistPath)
                            THEN 200 ELSE 404,
                 !.via = "handler",
                 !.checked = <<filePath, masterPlaylistPath>>,
                 !.stated = <<filePath>>]

(***************************************************************************)
(* The transcode job that POST /upload and POST /upload-url start.         *)
(***************************************************************************)
Reqs == 1..MaxReqs
Stems == {n.stem : n \in StoreNames}

\* path.join(uploadDir, path.parse(filename).name)
hlsOutputDir(name) == ParsedName(name)

\* const qualityLevels = [...]; a bitrate is the string the code parses.
qualityLevels ==
    << [name |-> "720p", size |-> "1280x720", bitrate |-> <<"2", "8", "0", "0", "k">>],
       [name |-> "480p", size |-> "854x480",  bitrate |-> <<"1", "4", "0", "0", "k">>],
       [name |-> "360p", size |-> "640x360",  bitrate |-> <<"8", "0", "0", "k">>] >>

\* An entry whose BANDWIDTH is the bitrate in kilobits, not multiplied out.
StreamInfKilobits(level) ==
    [bandwidth  |-> ParseInt(level.bitrate),
     resolution |-> level.size,
     uri        |-> FileName(level.name, <<".", "m", "3", "u", "8">>)]

\* One '#EXT-X-STREAM-INF:BANDWIDTH=...,RESOLUTION=...' line and the playlist
\* name under it.
StreamInf(level) ==
    [bandwidth  |-> NumMul(ParseInt(level.bitrate), Num(1000)),
     resolution |-> level.size,
     uri        |-> FileName(level.name, <<".", "m", "3", "u", "8">>)]

\* The text written to master.m3u8: the header and one entry per level.
masterPlaylist ==
    [header  |-> <<"#EXTM3U", "#EXT-X-VERSION:3">>,
     streams |-> [i \in 1..Len(qualityLevels) |-> StreamInf(qualityLevels[i])]]

\* The files of a package directory that a player asks for: the master
\* playlist, a rendition playlist ('720p.m3u8') and a segment of it
\* ('720p_000.ts').
MasterName == FileName("master", <<".", "m", "3", "u", "8">>)
RenditionNames == { FileName("720p", <<".", "m", "3", "u", "8">>), FileName("720p_000", <<".", "t", "s">>) }
PackageNames == {MasterName} \cup RenditionNames

\* What is on disk under uploadDir.
DiskOf(f, d, s, m) == [files |-> f, dirs |-> d, seg |-> s, master |-> m]

\* The path uploadDir/name, or uploadDir/dir/name, is a regular file.  A
\* directory segment is written as a name; only a name without extension
\* whose stem is an output directory is a directory (a stored file in the
\* middle of a path is ENOTDIR, which express.static takes as not found).
PathIsFile(disk, dir, name) ==
    IF dir = <<>>
    THEN name \in DOMAIN disk.files /\ disk.files[name].there
    ELSE /\ dir[1].ext = NoExt
         /\ dir[1].stem \in disk.dirs
         /\ \/ name = MasterName /\ disk.master[dir[1].stem] # <<>>
            \/ name \in RenditionNames /\ disk.seg[dir[1].stem] # "none"

\* A GET request below /uploads: the directory segments, the name of the
\* last segment once decoded, the text that follows its stem in the URL as
\* it was sent, and the Range header.
\* A GET request under /uploads: the directory segments, the name the last
\* segment decodes to, that segment as it was sent, and the Range header.
Get(dir, name, raw, range) ==
    [dir |-> dir, name |-> name, raw |-> raw, range |-> range]

\* The units of the stems of the model's names.
StemChars(stem) ==
    CASE stem = ""         -> <<>>
      [] stem = "a"        -> <<"a">>
      [] stem = "b"        -> <<"b">>
      [] stem = "c"        -> <<"c">>
      [] stem = ".a"       -> <<".", "a">>
      [] stem = "master"   -> <<"m", "a", "s", "t", "e", "r">>
      [] stem = "720p"     -> <<"7", "2", "0", "p">>
      [] stem = "720p_000" -> <<"7", "2", "0", "p", "_", "0", "0", "0">>

\* The name as a client sends it when it escapes nothing.
Spelled(name) == StemChars(name.stem) \o name.ext

\* The escaped spellings of an extension the model sends.
EncodedTails ==
    { <<"%", "2", "E", "m", "p", "4">>, <<".", "m", "p", "%", "3", "4">> }
\* The texts a client can send for `name`: its stem, then its extension
\* plain or escaped.
UrlTails(name) ==
    { StemChars(name.stem) \o t :
        t \in {name.ext}
               \cup {e \in EncodedTails :
                        DecodeURIComponent(e) = [ok |-> TRUE, text |-> name.ext]} }

\* No route matches: Express's final handler answers 404.
FinalHandler ==
    [NoResponse EXCEPT !.status = 404, !.via = "finalhandler"]

\* GET /uploads/<dir>/<name>: the app.use('/uploads') middleware decides by
\* path.basename(req.path); the route '/uploads/:filename' matches a path of
\* one segment only.
PathResponses(disk, dir, name, raw, range) ==
    IF dir = <<>>
    THEN UploadsResponses(disk.files, name, raw, range)
    ELSE IF /\ GoesToStatic(raw)
            /\ PathIsFile(disk, dir, name)
            /\ name \notin Dotfiles
         THEN StaticOutcomes(disk.files, name, range)
         ELSE {FinalHandler}

\* The manifest URL of the player page:
\* `/uploads/${encodeURIComponent(filename)}/master.m3u8`.
ManifestSrc(filename) == Get(<<filename>>, MasterName, Spelled(MasterName), NoHeader)

\* The bytes request r sends or fetches: two bytes that name the request.
Payload(r) == <<10 * r, 10 * r + 1>>

\* What an ingestion request carries: the stored (sanitized) name and the
\* declared MIME type; for a URL the content-type header may be absent ("").
UploadInputs ==
    { [name |-> FileName("a", <<".", "m", "p", "4">>), mime |-> "video/mp4"],
      [name |-> FileName("a", <<".", "m", "k", "v">>), mime |-> "video/mkv"],
      [name |-> FileName("b", <<".", "t", "x", "t">>), mime |-> "text/plain"] }
UrlInputs ==
    UploadInputs \cup { [name |-> FileName("a", <<".", "m", "p", "4">>), mime |-> ""] }

NoReq == [route |-> "none", name |-> FileName("", NoExt), mime |-> "", size |-> 0]
NoResp == [status |-> 0, kind |-> "none", message |-> "", detail |-> <<>>]
Json(code, kind, message) ==
    [status |-> code, kind |-> kind, message |-> message, detail |-> <<>>]

\* The values of the environment variable MAX_UPLOAD_SIZE the model starts
\* the server with: not set, a limit of 1000 bytes, and a text without digits.
EnvValues == {NoHeader, Header(<<"1", "0", "0", "0">>), Header(<<"a">>)}

\* MAX_UPLOAD_SIZE: parseInt of the environment variable when it is set to
\* a non-empty text, 500 MB otherwise.  A number, NaN included.
MAX_UPLOAD_SIZE ==
    IF Truthy(env) THEN ParseInt(env.text) ELSE Num(500 * 1024 * 1024)

\* multer's limits.fileSize: the body of the file part is longer.  No size
\* is greater than NaN.
ExceedsLimit(size) == NumGt(Num(size), MAX_UPLOAD_SIZE)

\* The sizes of the file part of upload r carrying `in`: the payload the
\* model stores or, for the one input drawn oversize, a body one byte over
\* the limit (of which the model keeps the bytes of the payload).
OversizeInput == [name |-> FileName("a", <<".", "m", "p", "4">>), mime |-> "video/mp4"]
UploadSizes(r, in) ==
    {Len(Payload(r))}
    \cup (IF in = OversizeInput /\ ~MAX_UPLOAD_SIZE.nan
          THEN {MAX_UPLOAD_SIZE.v + 1} ELSE {})

\* The sizes of the remote body of URL request r, likewise.
UrlSizes(r, in) == UploadSizes(r, in)

RECURSIVE FloorLog(_, _)
\* Math.floor(Math.log(bytes) / Math.log(k)), for bytes >= 1
FloorLog(bytes, k) == IF bytes < k THEN 0 ELSE 1 + FloorLog(bytes \div k, k)

RECURSIVE Pow(_, _)
\* Math.pow(k, i)
Pow(k, i) == IF i = 0 THEN 1 ELSE k * Pow(k, i - 1)

sizes == <<"Bytes", "KB", "MB", "GB", "TB">>

\* formatBytes(bytes), bytes a number: '0 Bytes' for 0; for a positive
\* number, bytes / k^i rounded to two decimals (half up, as toFixed does
\* with an exact quotient) and printed without trailing zeros, then the
\* unit.  The number is kept as whole part and hundredths; the rounding is
\* computed in two halves so that no product leaves 32 bits.  Math.log of
\* NaN and of a negative number is NaN, and so are the index i and the
\* quotient: the text is 'NaN undefined'.
formatBytes(bytes) ==
    IF bytes.nan \/ bytes.v < 0
    THEN [nan |-> TRUE, whole |-> 0, hundredths |-> 0, unit |-> "undefined"]
    ELSE IF bytes.v = 0
    THEN [nan |-> FALSE, whole |-> 0, hundredths |-> 0, unit |-> "Bytes"]
    ELSE LET k == 1024
             i == FloorLog(bytes.v, k)
             p == Pow(k, i)
             q == IF i = 0 THEN 1 ELSE Pow(k, i - 1)
             rest == bytes.v % p
             h == IF i = 0 THEN 0
                  ELSE ((rest \div q) * 100 + ((rest % q) * 100) \div q
                          + k \div 2) \div k
         IN  [nan        |-> FALSE,
              whole      |-> bytes.v \div p + h \div 100,
              hundredths |-> h % 100,
              unit       |-> sizes[i + 1]]

\* An error-handling middleware that answers every MulterError with 400.
MulterErrorAnswerAll400(code, message) ==
    Json(400, "error", message)

\* The error-handling middleware for a MulterError.
MulterErrorAnswer(code, message) ==
    IF code = "LIMIT_FILE_SIZE"
    THEN [Json(413, "error", "File is too large. Maximum size is ${formatBytes(MAX_UPLOAD_SIZE)}.")
             EXCEPT !.detail = <<formatBytes(MAX_UPLOAD_SIZE)>>]
    ELSE IF code = "LIMIT_UNEXPECTED_FILE"
    THEN Json(400, "error", "File type not supported!")
    ELSE Json(400, "error", message)

\* A classification that takes every declared type but the generic one.
isMediaUnlessGeneric(mime) == mime # "application/octet-stream"

\* The allow-list of multer's fileFilter.
allowedMimeTypes ==
    mediaMimeTypes \cup
    { "application/pdf", "application/msword",
      "application/vnd.openxmlformats-officedocument.wordprocessingml.document",
      "text/plain" }

\* A filter that lets every type through.
FileFilterAcceptsAll(mime) == mime = mime

\* fileFilter: allowedMimeTypes.includes(file.mimetype)
FileFilterAccepts(mime) == mime \in allowedMimeTypes

\* An upload the filter turns away: a .mp4 sent with the generic type.
RejectedInputs ==
    { [name |-> FileName("a", <<".", "m", "p", "4">>), mime |-> "application/octet-stream"] }

\* mediaMimeTypes.includes(mimetype)
isMedia(mime) == mime \in mediaMimeTypes

\* response.headers['content-type'] || 'application/octet-stream'
UrlMimeType(contentType) ==
    IF contentType = "" THEN "application/octet-stream" ELSE contentType

\* An 'error' event without a listener, of the read stream of a GET or of
\* the body stream of a download, is an uncaught exception, and the program
\* installs no handler for those: the process ends.  The server is running.
Alive ==
    /\ stream.fd # "failed"
    /\ \A r \in Reqs : pc[r] # "crashed" /\ writer[r].body # "failed"

\* Request ids are given in order of arrival: r can arrive next, at a
\* server that is running.
Arrives(r) ==
    Alive /\ pc[r] = "idle" /\ \A q \in 1..(r - 1) : pc[q] # "idle"

\* A promise continuation is queued: it runs before any other callback.
MicrotaskPending == \E r \in Reqs : pc[r] \in {"resolved", "rejected"}

\* The FFmpeg commands that have opened their outputs in directory d.
Writers(d) ==
    {r \in Reqs : engine[r] = "writing" /\ hlsOutputDir(req[r].name) = d}
\* The FFmpeg commands started and not yet finished against directory d.
Running(d) ==
    {r \in Reqs : engine[r] \in {"running", "writing"}
                    /\ hlsOutputDir(req[r].name) = d}

\* The state of the job of request r, read off the handler's position.
JobState(r) ==
    CASE engine[r] = "notstarted" -> "Pending"
      [] engine[r] \in {"running", "writing"} -> "Running"
      [] engine[r] = "errored" -> "Failed"
      [] engine[r] = "ended" -> IF wrote[r] THEN "Published" ELSE "Running"

\* The state of the job currently associated with a stored name.
AssetJobState(name) ==
    IF jobOf[name] = 0 THEN "None" ELSE JobState(jobOf[name])

\* The outputs attached to one FFmpeg command: for each quality level
\* .output(`${level.name}.m3u8`).size(level.size).videoBitrate(level.bitrate)
\* with '-hls_segment_filename' `${level.name}_%03d.ts`.
EngineOutputs ==
    [i \in 1..Len(qualityLevels) |->
        [output       |-> FileName(qualityLevels[i].name, <<".", "m", "3", "u", "8">>),
         size         |-> qualityLevels[i].size,
         videoBitrate |-> qualityLevels[i].bitrate,
         segments     |-> [stem |-> qualityLevels[i].name,
                           pattern |-> "_%03d",
                           ext |-> <<".", "t", "s">>]]]

\* A directory step that starts every job from an empty directory.
EnsureOutputDirEmptied(name) ==
    /\ dirs' = dirs \cup {hlsOutputDir(name)}
    /\ seg' = [seg EXCEPT ![hlsOutputDir(name)] = "none"]
    /\ master' = [master EXCEPT ![hlsOutputDir(name)] = <<>>]

\* if (!fs.existsSync(hlsOutputDir)) fs.mkdirSync(hlsOutputDir, ...): the
\* directory is created when it is missing; one that exists is left as it
\* is, with what it holds.
EnsureOutputDir(name) ==
    /\ dirs' = dirs \cup {hlsOutputDir(name)}
    /\ UNCHANGED <<seg, master>>

\* A media branch that writes the master playlist before FFmpeg has run.
StartJobManifestFirst(r, name) ==
    /\ dirs' = dirs \cup {hlsOutputDir(name)}
    /\ engine' = [engine EXCEPT ![r] = "running"]
    /\ jobOf' = [jobOf EXCEPT ![name] = r]
    /\ pc' = [pc EXCEPT ![r] = "encoding"]
    /\ invoked' = [invoked EXCEPT ![r] = Append(@, EngineOutputs)]
    /\ master' = [master EXCEPT ![hlsOutputDir(name)] = <<masterPlaylist>>]
    /\ wrote' = [wrote EXCEPT ![r] = TRUE]
    /\ UNCHANGED <<seg, resp>>

\* The media branch up to ffmpegCommand.run(): create the output directory
\* when it is missing, then start one FFmpeg command with all outputs.
StartJob(r, name) ==
    /\ EnsureOutputDir(name)
    /\ engine' = [engine EXCEPT ![r] = "running"]
    /\ jobOf' = [jobOf EXCEPT ![name] = r]
    /\ pc' = [pc EXCEPT ![r] = "encoding"]
    /\ invoked' = [invoked EXCEPT ![r] = Append(@, EngineOutputs)]
    /\ UNCHANGED <<resp, wrote>>

\* The branch for a file that is no media file: answer with its URL.
RawAnswer(r) ==
    /\ resp' = [resp EXCEPT ![r] =
                   Json(200, "fileUrl",
                        IF req[r].route = "upload"
                        THEN "File uploaded successfully."
                        ELSE "File downloaded successfully via URL.")]
    /\ pc' = [pc EXCEPT ![r] = "done"]
    /\ UNCHANGED <<dirs, seg, master, engine, invoked, wrote, jobOf>>

\* A handler that does not test req.file and answers as for a stored file.
UploadNoFileAccepted(r) ==
    /\ ~MicrotaskPending
    /\ Arrives(r)
    /\ req' = [req EXCEPT ![r] = [NoReq EXCEPT !.route = "upload"]]
    /\ resp' = [resp EXCEPT ![r] = Json(200, "fileUrl", "File uploaded successfully.")]
    /\ pc' = [pc EXCEPT ![r] = "done"]
    /\ UNCHANGED <<files, dirs, seg, master, engine, invoked, wrote, jobOf, watch, getVars>>

\* POST /upload arrives without a file: 400.
UploadNoFile(r) ==
    /\ ~MicrotaskPending
    /\ Arrives(r)
    /\ req' = [req EXCEPT ![r] = [NoReq EXCEPT !.route = "upload"]]
    /\ resp' = [resp EXCEPT ![r] = Json(400, "error", "No file uploaded.")]
    /\ pc' = [pc EXCEPT ![r] = "done"]
    /\ UNCHANGED <<files, dirs, seg, master, engine, invoked, wrote, jobOf, watch, getVars>>

\* POST /upload arrives with a file: multer's disk storage opens
\* uploadDir/<sanitized name> for writing and streams the body into it.
UploadBegin(r) ==
    /\ ~MicrotaskPending
    /\ Arrives(r)
    /\ \E in \in UploadInputs \cup RejectedInputs :
       \E size \in UploadSizes(r, in) :
          /\ FileFilterAccepts(in.mime)
          /\ req' = [req EXCEPT ![r] =
                        [route |-> "upload", name |-> in.name, mime |-> in.mime,
                         size |-> size]]
          /\ files' = [files EXCEPT ![in.name] = File(SubSeq(Payload(r), 1, 1))]
    /\ pc' = [pc EXCEPT ![r] = "uploading"]
    /\ UNCHANGED <<dirs, seg, master, engine, invoked, resp, wrote, jobOf, watch, getVars>>

\* POST /upload arrives with a file whose declared type the fileFilter
\* refuses: multer skips the file (nothing is written) and passes
\* MulterError('LIMIT_UNEXPECTED_FILE') to the error middleware.
UploadRejected(r) ==
    /\ ~MicrotaskPending
    /\ Arrives(r)
    /\ \E in \in UploadInputs \cup RejectedInputs :
          /\ ~FileFilterAccepts(in.mime)
          /\ req' = [req EXCEPT ![r] =
                        [route |-> "upload", name |-> in.name, mime |-> in.mime,
                         size |-> Len(Payload(r))]]
    /\ resp' = [resp EXCEPT ![r] =
                   MulterErrorAnswer("LIMIT_UNEXPECTED_FILE", "Unexpected field")]
    /\ pc' = [pc EXCEPT ![r] = "done"]
    /\ UNCHANGED <<files, dirs, seg, master, engine, invoked, wrote, jobOf, watch, getVars>>

\* The upload is complete and the route handler runs, up to its await.
UploadHandler(r) ==
    /\ ~MicrotaskPending
    /\ pc[r] = "uploading"
    /\ ~ExceedsLimit(req[r].size)
    /\ files' = [files EXCEPT ![req[r].name] = File(Payload(r))]
    /\ IF isMedia(req[r].mime)
       THEN StartJob(r, req[r].name)
       ELSE RawAnswer(r)
    /\ UNCHANGED <<req, watch, getVars>>

\* The file part passes limits.fileSize: multer stops, removes the file it
\* was writing and passes MulterError('LIMIT_FILE_SIZE') to the error
\* middleware; the route handler is not called.
UploadTooLarge(r) ==
    /\ ~MicrotaskPending
    /\ pc[r] = "uploading"
    /\ ExceedsLimit(req[r].size)
    /\ files' = [files EXCEPT ![req[r].name] = NoFile]
    /\ resp' = [resp EXCEPT ![r] =
                   MulterErrorAnswer("LIMIT_FILE_SIZE", "File too large")]
    /\ pc' = [pc EXCEPT ![r] = "done"]
    /\ stream' = IF stream.fd = "open" /\ stream.orphan = <<>>
                     /\ gReq.dir = <<>> /\ gReq.name = req[r].name
                 THEN [stream EXCEPT !.orphan = <<files[req[r].name].data>>]
                 ELSE stream
    /\ writer' = [q \in Reqs |->
                     IF writer[q].fd = "open" /\ req[q].name = req[r].name
                     THEN [writer[q] EXCEPT !.linked = FALSE]
                     ELSE writer[q]]
    /\ UNCHANGED <<dirs, seg, master, req, engine, invoked, wrote, jobOf, watch,
                   gReq, gResp, nameVars, runVars, pathVars, env, gone>>

\* The write stream of a URL download: the state of its descriptor, the
\* offset of its next write, whether the file it has open still has its
\* name in uploadDir, and the state of response.data, the stream piped into
\* it.
NoWriter == [fd |-> "none", pos |-> 0, linked |-> TRUE, body |-> "none"]
\* fs.createWriteStream(filePath) as it stands when the handler returns.
CreateWriteStream == [NoWriter EXCEPT !.fd = "pending"]

\* The bytes of a file after one byte is written at offset `at`: the byte
\* there is replaced, and a file that ends before `at` is filled with zeros.
WriteAt(data, at, byte) ==
    [i \in 1..(IF at + 1 > Len(data) THEN at + 1 ELSE Len(data)) |->
        IF i = at + 1 THEN byte
        ELSE IF i <= Len(data) THEN data[i]
        ELSE 0]

\* POST /upload-url arrives without fileUrl: 400.
UrlNoUrl(r) ==
    /\ ~MicrotaskPending
    /\ Arrives(r)
    /\ req' = [req EXCEPT ![r] = [NoReq EXCEPT !.route = "uploadUrl"]]
    /\ resp' = [resp EXCEPT ![r] = Json(400, "error", "No URL provided.")]
    /\ pc' = [pc EXCEPT ![r] = "done"]
    /\ UNCHANGED <<files, dirs, seg, master, engine, invoked, wrote, jobOf, watch, getVars>>

\* POST /upload-url arrives with a URL: the handler awaits the remote fetch.
UrlBegin(r) ==
    /\ ~MicrotaskPending
    /\ Arrives(r)
    /\ \E in \in UrlInputs : \E size \in UrlSizes(r, in) :
          req' = [req EXCEPT ![r] =
                     [route |-> "uploadUrl", name |-> in.name,
                      mime |-> UrlMimeType(in.mime),
                      size |-> size]]
    /\ pc' = [pc EXCEPT ![r] = "fetching"]
    /\ UNCHANGED <<files, dirs, seg, master, engine, invoked, resp, wrote, jobOf, watch, getVars>>

\* The outer catch of POST /upload-url.
UrlCatch(r) ==
    /\ resp' = [resp EXCEPT ![r] =
                   Json(500, "error", "Failed to download file from the provided URL.")]
    /\ pc' = [pc EXCEPT ![r] = "done"]

\* The remote answers: the handler goes on, creates the write stream,
\* pipes the body into it and returns at 'await finished(writer)'.  The open
\* of the file is queued; the store is as it was.
UrlFetched(r) ==
    /\ ~MicrotaskPending
    /\ pc[r] = "fetching"
    /\ pc' = [pc EXCEPT ![r] = "downloading"]
    /\ writer' = [writer EXCEPT ![r] = [CreateWriteStream EXCEPT !.body = "open"]]
    /\ UNCHANGED <<files, dirs, seg, master, req, engine, invoked, resp, wrote,
                   jobOf, watch, readVars, gone>>

\* The queued open of the write stream runs, with flag 'w': the file is
\* created, or truncated when it is there.
UrlWriterOpens(r) ==
    /\ ~MicrotaskPending
    /\ pc[r] \in {"downloading", "hung"}
    /\ writer[r].fd = "pending"
    /\ files' = [files EXCEPT ![req[r].name] = File(<<>>)]
    /\ writer' = [writer EXCEPT ![r].fd = "open"]
    /\ UNCHANGED <<dirs, seg, master, pc, req, engine, invoked, resp, wrote,
                   jobOf, watch, readVars, gone>>

\* The write stream writes the next chunk of the body at the offset of its
\* own descriptor; a file that was unlinked is written out of sight.  A
\* chunk is a byte here.
UrlWriteChunk(r) ==
    /\ ~MicrotaskPending
    /\ pc[r] = "downloading"
    /\ writer[r].fd = "open"
    /\ writer[r].pos < Len(Payload(r))
    /\ files' = IF writer[r].linked
                THEN [files EXCEPT ![req[r].name] =
                         File(WriteAt(@.data, writer[r].pos,
                                      Payload(r)[writer[r].pos + 1]))]
                ELSE files
    /\ writer' = [writer EXCEPT ![r].pos = @ + 1]
    /\ UNCHANGED <<dirs, seg, master, pc, req, engine, invoked, resp, wrote,
                   jobOf, watch, readVars, gone>>

\* A handler that opens the write stream before it awaits the fetch, so
\* that a failed fetch leaves an empty file.
UrlFetchFailedLeavesFile(r) ==
    /\ ~MicrotaskPending
    /\ pc[r] = "fetching"
    /\ UrlCatch(r)
    /\ files' = [files EXCEPT ![req[r].name] = File(<<>>)]
    /\ UNCHANGED <<dirs, seg, master, req, engine, invoked, wrote, jobOf, watch, getVars>>

\* The remote fetch fails (connection error, non-2xx status).
UrlFetchFailed(r) ==
    /\ ~MicrotaskPending
    /\ pc[r] = "fetching"
    /\ UrlCatch(r)
    /\ UNCHANGED <<files, dirs, seg, master, req, engine, invoked, wrote, jobOf, watch, getVars>>

\* The body has ended and every chunk is written: the write stream closes,
\* finished(writer) resolves and the handler goes on, up to its next await.
\* It writes nothing to the file.
UrlDownloaded(r) ==
    /\ ~MicrotaskPending
    /\ pc[r] = "downloading"
    /\ writer[r].fd = "open"
    /\ writer[r].pos = Len(Payload(r))
    /\ writer' = [writer EXCEPT ![r].fd = "closed", ![r].body = "ended"]
    /\ IF isMedia(req[r].mime)
       THEN StartJob(r, req[r].name)
       ELSE RawAnswer(r)
    /\ UNCHANGED <<files, req, watch, readVars, gone>>

\* finished(writer) rejects: the write stream failed, at its open or at a
\* write, and is destroyed; the catch answers 500.  This happens to a
\* stalled download as well as to a running one.  The body is unpiped and
\* stays as it is: nothing destroys it.
UrlWriteFailed(r) ==
    /\ ~MicrotaskPending
    /\ pc[r] \in {"downloading", "hung"}
    /\ writer[r].fd \in {"pending", "open"}
    /\ writer' = [writer EXCEPT ![r].fd = "closed"]
    /\ UrlCatch(r)
    /\ UNCHANGED <<files, dirs, seg, master, req, engine, invoked, wrote,
                   jobOf, watch, readVars, gone>>

\* The remote body stops after the download has started: no chunk comes
\* any more, the stream does not end, and if it fails a listener of the
\* HTTP library takes the 'error'.  pipe() neither ends nor destroys the
\* writer when its source fails and the request has no timeout, so
\* finished(writer) never settles and the handler stays at its await.
UrlBodyStalls(r) ==
    /\ ~MicrotaskPending
    /\ pc[r] = "downloading"
    /\ pc' = [pc EXCEPT ![r] = "hung"]
    /\ UNCHANGED <<files, dirs, seg, master, req, engine, invoked, resp, wrote, jobOf, watch, getVars>>

\* The remote body fails after the download has started (the connection is
\* reset): response.data emits 'error'.  pipe() puts no 'error' listener on
\* its source and neither does the handler; when the HTTP library has left
\* none either, the exception is uncaught and the process ends, with every
\* request it had not yet answered, and with the file as far as it was
\* written.  The body can fail while the handler waits at its await, running
\* or stalled, and after the handler has answered through its catch because
\* the write stream failed: the body is still open then.
UrlBodyFails(r) ==
    /\ ~MicrotaskPending
    /\ Alive
    /\ writer[r].body = "open"
    /\ pc[r] \in {"downloading", "hung", "done"}
    /\ pc' = [q \in Reqs |->
                 IF pc[q] \in {"idle", "done"} THEN pc[q] ELSE "crashed"]
    /\ writer' = [writer EXCEPT ![r].body = "failed"]
    /\ UNCHANGED <<files, dirs, seg, master, req, engine, invoked, resp, wrote,
                   jobOf, watch, readVars, gone>>

\* The FFmpeg process opens its outputs: every rendition playlist and
\* segment in the directory is now being (re)written.
EngineWrite(r) ==
    /\ Alive
    /\ engine[r] = "running"
    /\ engine' = [engine EXCEPT ![r] = "writing"]
    /\ seg' = [seg EXCEPT ![hlsOutputDir(req[r].name)] = "partial"]
    /\ UNCHANGED <<files, dirs, master, pc, req, resp, wrote, jobOf, watch, invoked, getVars>>

\* FFmpeg exits with success: .on('end') resolves the promise.
EngineEnd(r) ==
    /\ Alive
    /\ ~MicrotaskPending
    /\ engine[r] = "writing"
    /\ engine' = [engine EXCEPT ![r] = "ended"]
    /\ seg' = [seg EXCEPT ![hlsOutputDir(req[r].name)] =
                  IF Writers(hlsOutputDir(req[r].name)) = {r}
                  THEN "complete" ELSE "partial"]
    /\ pc' = [pc EXCEPT ![r] = "resolved"]
    /\ UNCHANGED <<files, dirs, master, req, resp, wrote, jobOf, watch, invoked, getVars>>

\* FFmpeg fails: .on('error') rejects the promise; its files stay.
EngineError(r) ==
    /\ Alive
    /\ ~MicrotaskPending
    /\ engine[r] \in {"running", "writing"}
    /\ engine' = [engine EXCEPT ![r] = "errored"]
    /\ pc' = [pc EXCEPT ![r] = "rejected"]
    /\ UNCHANGED <<files, dirs, seg, master, req, resp, wrote, jobOf, watch, invoked, getVars>>

\* After the await: fs.writeFileSync(masterPlaylistPath, masterPlaylist).
WriteMaster(r) ==
    /\ master' = [master EXCEPT ![hlsOutputDir(req[r].name)] = <<masterPlaylist>>]
    /\ wrote' = [wrote EXCEPT ![r] = TRUE]

\* The continuation of a resolved encode: master playlist, then the answer.
EncodeDone(r) ==
    /\ pc[r] = "resolved"
    /\ WriteMaster(r)
    /\ resp' = [resp EXCEPT ![r] =
                   Json(200, "watchUrl",
                        IF req[r].route = "upload"
                        THEN "Media file uploaded and converted to HLS successfully."
                        ELSE "Media file downloaded and converted to HLS successfully via URL.")]
    /\ pc' = [pc EXCEPT ![r] = "done"]
    /\ UNCHANGED <<files, dirs, seg, req, engine, invoked, jobOf, watch, getVars>>

\* A catch block that clears the output directory before it answers.
UploadCatchCleansUp(r) ==
    /\ resp' = [resp EXCEPT ![r] =
                   Json(500, "error", "Error processing video for streaming.")]
    /\ pc' = [pc EXCEPT ![r] = "done"]
    /\ seg' = [seg EXCEPT ![hlsOutputDir(req[r].name)] = "none"]
    /\ UNCHANGED <<files, dirs, master, wrote>>

\* The catch of POST /upload: res.status(500).json({ error }).
UploadCatch(r) ==
    /\ resp' = [resp EXCEPT ![r] =
                   Json(500, "error", "Error processing video for streaming.")]
    /\ pc' = [pc EXCEPT ![r] = "done"]
    /\ UNCHANGED <<files, dirs, seg, master, wrote>>

\* A continuation of a rejected encode that runs the command once more.
EncodeFailedRetries(r) ==
    /\ pc[r] = "rejected"
    /\ engine' = [engine EXCEPT ![r] = "running"]
    /\ invoked' = [invoked EXCEPT ![r] = Append(@, EngineOutputs)]
    /\ pc' = [pc EXCEPT ![r] = "encoding"]
    /\ UNCHANGED <<files, dirs, seg, master, req, resp, wrote, jobOf, watch, getVars>>

\* The continuation of a rejected encode: the route's catch block.
EncodeFailed(r) ==
    /\ pc[r] = "rejected"
    /\ IF req[r].route = "upload"
       THEN UploadCatch(r)
       ELSE UrlCatch(r) /\ UNCHANGED <<files, dirs, seg, master, wrote>>
    /\ UNCHANGED <<req, engine, invoked, jobOf, watch, getVars>>

\* A disconnect that takes the encode down with the connection.
ClientDisconnectsKillsEngine(r) ==
    /\ ~MicrotaskPending
    /\ pc[r] = "encoding"
    /\ ~gone[r]
    /\ gone' = [gone EXCEPT ![r] = TRUE]
    /\ engine' = [engine EXCEPT ![r] = "errored"]
    /\ pc' = [pc EXCEPT ![r] = "rejected"]
    /\ UNCHANGED <<files, dirs, seg, master, req, resp, wrote, jobOf, watch,
                   invoked, writer, readVars>>

\* The client of request r closes its connection while the encode of r is
\* under way.  Neither handler listens for 'close' or 'aborted' on the
\* request and the FFmpeg process is no child of the connection: nothing but
\* the connection changes.  (Disconnects before the engine is started are
\* not drawn.)
ClientDisconnects(r) ==
    /\ ~MicrotaskPending
    /\ pc[r] = "encoding"
    /\ ~gone[r]
    /\ gone' = [gone EXCEPT ![r] = TRUE]
    /\ UNCHANGED <<files, dirs, seg, master, pc, req, engine, resp, wrote,
                   jobOf, watch, invoked, writer, readVars>>

(***************************************************************************)
(* GET /watch/:filename.                                                   *)
(***************************************************************************)
NoWatch ==
    [status |-> 0, name |-> FileName("", NoExt), message |-> "",
     seg |-> "none", running |-> 0]

\* The :filename values a viewer asks for: the stored names, and the names
\* of the output directories, which are paths under uploadDir as well.
WatchNames == StoreNames \cup {FileName(d, NoExt) : d \in Stems}

\* fs.existsSync(path.join(uploadDir, filename)): a stored file, or an
\* output directory.
ExistsSync(name) ==
    IF name \in StoreNames THEN files[name].there
    ELSE name.ext = NoExt /\ name.stem \in dirs

\* The status and text of the answer, the disk being as it is now.
WatchAnswer(name) ==
    IF ~ExistsSync(name)
    THEN [status |-> 404, message |-> "File not found."]
    ELSE IF getMimeType(name) \notin mediaMimeTypes
    THEN [status |-> 400, message |-> "File is not a supported media type."]
    ELSE IF master[hlsOutputDir(name)] = <<>>
    THEN [status |-> 404, message |-> "Streaming not available for this file."]
    ELSE [status |-> 200, message |-> "player page"]

\* A watch route that creates the package directory it looks into.
WatchCreatesDir(name) ==
    /\ ~MicrotaskPending
    /\ watch.status = 0
    /\ watch' = [NoWatch EXCEPT !.status = WatchAnswer(name).status,
                                !.name = name,
                                !.message = WatchAnswer(name).message]
    /\ dirs' = dirs \cup {hlsOutputDir(name)}
    /\ UNCHANGED <<files, seg, master, pc, req, engine, invoked, resp, wrote,
                   jobOf, getVars>>

\* One GET /watch/:filename; beside the answer, for a reader that is given
\* the player page, what the package directory held at that moment.
Watch(name) ==
    /\ Alive
    /\ ~MicrotaskPending
    /\ watch.status = 0
    /\ LET answer == WatchAnswer(name)
           found  == answer.status = 200
       IN  watch' = [status  |-> answer.status,
                     name    |-> name,
                     message |-> answer.message,
                     seg     |-> IF found THEN seg[hlsOutputDir(name)]
                                 ELSE "none",
                     running |-> IF found
                                 THEN Cardinality(Running(hlsOutputDir(name)))
                                 ELSE 0]
    /\ UNCHANGED <<files, dirs, seg, master, pc, req, engine, invoked, resp, wrote, jobOf,
                   getVars>>

\* The player loads the manifest URL of the page it has been given: one
\* GET of ManifestSrc(filename), answered against the disk as it is now.
GetManifest ==
    /\ Alive
    /\ ~MicrotaskPending
    /\ watch.status = 200
    /\ gResp.status = 0
    /\ gReq' = ManifestSrc(watch.name)
    /\ gResp' \in PathResponses(DiskOf(files, dirs, seg, master),
                                <<watch.name>>, MasterName,
                                Spelled(MasterName), NoHeader)
    /\ UNCHANGED <<orchVars, nameVars, runVars>>

(***************************************************************************)
(* The specifications.                                                     *)
(***************************************************************************)
\* The two runs that are compared, and a run that has not begun: `pc` is
\* the await its handler stands at, status 0 while it has not answered.
RunIds == {"a", "b"}
NoRun == [header |-> NoHeader, elapsed |-> 0]
NoRuns == [in |-> [name |-> FileName("", NoExt), mime |-> ""],
           a |-> NoRun, b |-> NoRun]
NoOutcome ==
    [pc |-> "fetching", status |-> 0, kind |-> "none", media |-> FALSE,
     name |-> FileName("", NoExt), body |-> <<>>, size |-> 0,
     downloadTime |-> <<>>, downloadSpeed |-> <<>>]
NoOutcomes == [k \in RunIds |-> NoOutcome]
NoNameIn == [text |-> <<>>, contentType |-> ""]
NoNameOut == [via |-> "none", name |-> <<>>]
NoGet == Get(<<>>, FileName("", NoExt), NoExt, NoHeader)

\* The server has just started on an empty store: no request is in progress.
InitIdle ==
    /\ writer = [r \in Reqs |-> NoWriter]
    /\ files = [n \in StoreNames |-> NoFile]
    /\ dirs = {}
    /\ seg = [d \in Stems |-> "none"]
    /\ master = [d \in Stems |-> <<>>]
    /\ pc = [r \in Reqs |-> "idle"]
    /\ req = [r \in Reqs |-> NoReq]
    /\ engine = [r \in Reqs |-> "notstarted"]
    /\ resp = [r \in Reqs |-> NoResp]
    /\ wrote = [r \in Reqs |-> FALSE]
    /\ jobOf = [n \in StoreNames |-> 0]
    /\ invoked = [r \in Reqs |-> <<>>]
    /\ gone = [r \in Reqs |-> FALSE]
    /\ stream = NoStream
    /\ pathReq = NoPathReq
    /\ pathRes = NoPathRes
    /\ watch = NoWatch
    /\ gReq = NoGet
    /\ gResp = NoResponse
    /\ nameIn = NoNameIn
    /\ nameOut = NoNameOut
    /\ runs = NoRuns
    /\ outcome = NoOutcomes

Next ==
    \/ \E r \in Reqs : UploadNoFile(r)
    \/ \E r \in Reqs : UploadBegin(r)
    \/ \E r \in Reqs : UploadRejected(r)
    \/ \E r \in Reqs : UploadHandler(r)
    \/ \E r \in Reqs : UploadTooLarge(r)
    \/ \E r \in Reqs : UrlNoUrl(r)
    \/ \E r \in Reqs : UrlBegin(r)
    \/ \E r \in Reqs : UrlFetched(r)
    \/ \E r \in Reqs : UrlFetchFailed(r)
    \/ \E r \in Reqs : UrlWriterOpens(r)
    \/ \E r \in Reqs : UrlWriteChunk(r)
    \/ \E r \in Reqs : UrlDownloaded(r)
    \/ \E r \in Reqs : UrlWriteFailed(r)
    \/ \E r \in Reqs : UrlBodyStalls(r)
    \/ \E r \in Reqs : UrlBodyFails(r)
    \/ \E r \in Reqs : EngineWrite(r)
    \/ \E r \in Reqs : EngineEnd(r)
    \/ \E r \in Reqs : EngineError(r)
    \/ \E r \in Reqs : EncodeDone(r)
    \/ \E r \in Reqs : EncodeFailed(r)

\* Spec: the server started without MAX_UPLOAD_SIZE in its environment.
Init == env = NoHeader /\ InitIdle

Spec == Init /\ [][Next]_vars

\* SpecEnv: the same server started with or without the variable.
InitEnv == env \in EnvValues /\ InitIdle

SpecEnv == InitEnv /\ [][Next]_vars

\* SpecWatch: the ingestion requests of Spec, and beside them one viewer
\* who asks for a player page and then loads the manifest URL of that page.
NextWatch ==
    \/ Next
    \/ \E name \in WatchNames : Watch(name)
    \/ GetManifest

SpecWatch == Init /\ [][NextWatch]_vars

\* SpecCancel: the ingestion requests of Spec with clients that may go away
\* during the encode, under the fairness of SpecLive.
NextCancel ==
    \/ Next
    \/ \E r \in Reqs : ClientDisconnects(r)

\* The bytes the descriptor of the read stream reads from: the file of the
\* requested name as it is now, or the bytes of the file that was unlinked
\* after the descriptor was opened.
StreamBytes ==
    IF stream.orphan # <<>> THEN stream.orphan[1] ELSE files[gReq.name].data

\* There is a byte at the offset of the stream, inside its window.
StreamHasByte ==
    /\ stream.pos < Len(StreamBytes)
    /\ IF stream.last = <<>> THEN TRUE ELSE stream.pos <= stream.last[1]

\* The queued open of the read stream runs: the descriptor is open, or the
\* file has gone since the handler looked and the stream emits ENOENT.
StreamOpen ==
    /\ Alive
    /\ ~MicrotaskPending
    /\ stream.fd = "pending"
    /\ stream' = [stream EXCEPT
                     !.fd = IF files[gReq.name].there THEN "open" ELSE "failed",
                     !.piped = @ /\ files[gReq.name].there]
    /\ UNCHANGED <<gReq, gResp, ingestVars, nameVars, runVars, pathVars, env>>

\* The client goes away while the body is streamed: res emits 'close' and
\* the listener that pipe() put on it unpipes the read stream, which pauses.
\* pipe() does not destroy its source, and the handler has no listener of
\* its own.
ResponseCloses ==
    /\ stream.fd \in {"pending", "open"}
    /\ stream.client = "connected"
    /\ stream' = [stream EXCEPT !.client = "gone", !.piped = FALSE]
    /\ UNCHANGED <<gReq, gResp, ingestVars, nameVars, runVars, pathVars, env>>

\* The stream reads a chunk, of the file as it is at that moment.  A
\* flowing stream writes it to the response.  A stream that was unpiped is
\* paused, not stopped: the read in flight completes and the stream reads on
\* while its buffer is below its highWaterMark (64 KiB, more than a file of
\* the model holds); what it reads stays in its buffer and the response
\* gets none of it.  A chunk is a byte here.
StreamData ==
    /\ Alive
    /\ ~MicrotaskPending
    /\ stream.fd = "open"
    /\ StreamHasByte
    /\ gResp' = IF stream.piped
                THEN [gResp EXCEPT !.body = Append(@, StreamBytes[stream.pos + 1])]
                ELSE gResp
    /\ stream' = [stream EXCEPT !.pos = @ + 1]
    /\ UNCHANGED <<gReq, ingestVars, nameVars, runVars, pathVars, env>>

\* The flowing stream is past its window or at the end of the file: 'end',
\* the response is ended and autoClose closes the descriptor.  A paused
\* stream that comes to the end of the file emits no 'end', its buffer being
\* unread, and its descriptor stays open.
StreamEnd ==
    /\ Alive
    /\ ~MicrotaskPending
    /\ stream.fd = "open"
    /\ stream.piped
    /\ ~StreamHasByte
    /\ stream' = [stream EXCEPT !.fd = "closed", !.piped = FALSE]
    /\ UNCHANGED <<gReq, gResp, ingestVars, nameVars, runVars, pathVars, env>>

\* SpecServe: the ingestion requests of Spec and, at any moment among them,
\* one GET /uploads/<name> without a Range header.
GetAsset(name) ==
    /\ Alive
    /\ ~MicrotaskPending
    /\ gResp.status = 0
    /\ \E raw \in UrlTails(name) :
          /\ gReq' = Get(<<>>, name, raw, NoHeader)
          /\ gResp' \in UploadsResponses(files, name, raw, NoHeader)
    /\ stream' = StreamOf(gResp')
    /\ UNCHANGED <<ingestVars, nameVars, runVars, pathVars, env>>

NextServe ==
    \/ Alive /\ Next
    \/ \E name \in StoreNames : GetAsset(name)
    \/ StreamOpen
    \/ StreamData
    \/ StreamEnd

SpecServe == Init /\ [][NextServe]_vars

\* The steps of request r that are bound to happen once they can: what the
\* event loop, the disk and the FFmpeg process do for it.  A queued open of
\* the write stream settles, one way or the other; a download that is
\* running takes some step, which may be its stall or its failure.  Of a
\* stalled download nothing more is bound to happen: its write stream and
\* its body can fail, and need not.
Progress(r) ==
    \/ UploadHandler(r) \/ UploadTooLarge(r)
    \/ UrlFetched(r) \/ UrlFetchFailed(r)
    \/ UrlWriterOpens(r) \/ UrlWriteChunk(r)
    \/ UrlDownloaded(r)
    \/ (pc[r] = "downloading" \/ writer[r].fd = "pending") /\ UrlWriteFailed(r)
    \/ UrlBodyStalls(r)
    \/ pc[r] = "downloading" /\ UrlBodyFails(r)
    \/ EngineWrite(r) \/ EngineEnd(r) \/ EngineError(r)
    \/ EncodeDone(r) \/ EncodeFailed(r)

\* SpecLive: Spec, and no request whose step is bound to happen waits for
\* ever: the remote answers or fails, a running transfer goes on, stalls or
\* fails, a started FFmpeg process exits, a queued continuation runs.
SpecLive == Spec /\ \A r \in Reqs : WF_vars(Progress(r))

SpecCancel ==
    Init /\ [][NextCancel]_vars /\ \A r \in Reqs : WF_vars(Progress(r))

(***************************************************************************)
(* SpecRange: one GET /uploads/:filename against a store that holds        *)
(* a.mp4 (of a drawn size), a.mkv and b.txt.                               *)
(***************************************************************************)
\* The strings between the '-' of a drawn Range header.
RangePieces ==
    { <<>>, <<"0">>, <<"1">>, <<"3">>, <<"9">>, <<"1", "0">>,
      <<"x">>, <<" ", "1">>, <<"U+00A0", "1">>, <<"1", ",", "3">> }

RECURSIVE PieceSeqs(_)
\* The sequences of 1..n pieces.
PieceSeqs(n) ==
    IF n = 0 THEN {}
    ELSE {<<p>> : p \in RangePieces}
         \cup PieceSeqs(n - 1)
         \cup {ps \o <<p>> : ps \in PieceSeqs(n - 1), p \in RangePieces}

RangeHeaders ==
    {NoHeader}
    \cup {Header(pre \o Join(ps, "-")) :
             pre \in {<<>>, BytesEq}, ps \in PieceSeqs(MaxParts)}

\* The requests below an output directory: the directory an encode writes
\* to ('a') and the directory the player page names ('a.mp4').
PackageDirs == { <<FileName("a", NoExt)>>, <<FileName("a", <<".", "m", "p", "4">>)>> }
PackageRanges ==
    { NoHeader,
      Header(BytesEq \o <<"0", "-", "1">>),
      Header(BytesEq \o <<"9", "-">>) }

PackageRequests ==
    { Get(dir, name, Spelled(name), range) :
         dir \in PackageDirs, name \in PackageNames, range \in PackageRanges }
GetRequests ==
    { g \in [dir : {<<>>}, name : StoreNames,
             raw : UNION {UrlTails(n) : n \in StoreNames},
             range : RangeHeaders] :
        g.raw \in UrlTails(g.name) }
    \cup PackageRequests

\* The server has just started: no request is in progress; the store holds
\* what earlier runs left, with or without a complete package for 'a.mp4'.
InitRange ==
    /\ writer = [r \in Reqs |-> NoWriter]
    /\ env = NoHeader
    /\ \E size \in 0..MaxFileSize :
          files = [n \in StoreNames |->
                      IF n = FileName("a", <<".", "m", "p", "4">>) THEN File(FileBytes(size))
                      ELSE IF n = FileName("a", <<".", "m", "k", "v">>) THEN File(FileBytes(2))
                      ELSE IF n = FileName("b", <<".", "t", "x", "t">>) THEN File(FileBytes(1))
                      ELSE IF n = FileName(".a", <<".", "m", "k", "v">>) THEN File(FileBytes(2))
                      ELSE NoFile]
    /\ gReq \in GetRequests
    /\ gResp = NoResponse
    /\ nameIn = NoNameIn
    /\ nameOut = NoNameOut
    /\ runs = NoRuns
    /\ outcome = NoOutcomes
    /\ \E published \in BOOLEAN :
          /\ published => gReq.dir # <<>>
          /\ dirs = IF published THEN {"a"} ELSE {}
          /\ seg = [d \in Stems |->
                       IF published /\ d = "a" THEN "complete" ELSE "none"]
          /\ master = [d \in Stems |->
                          IF published /\ d = "a" THEN <<masterPlaylist>>
                          ELSE <<>>]
    /\ pc = [r \in Reqs |-> "idle"]
    /\ req = [r \in Reqs |-> NoReq]
    /\ engine = [r \in Reqs |-> "notstarted"]
    /\ resp = [r \in Reqs |-> NoResp]
    /\ wrote = [r \in Reqs |-> FALSE]
    /\ jobOf = [n \in StoreNames |-> 0]
    /\ invoked = [r \in Reqs |-> <<>>]
    /\ gone = [r \in Reqs |-> FALSE]
    /\ stream = NoStream
    /\ pathReq = NoPathReq
    /\ pathRes = NoPathRes
    /\ watch = NoWatch

\* The request is handled: the handler decides status and headers from what
\* existsSync and statSync report now, creates the read stream and returns;
\* the file is opened and read in later turns of the event loop.
GetUploads ==
    /\ gResp.status = 0
    /\ gResp' \in PathResponses(DiskOf(files, dirs, seg, master),
                                gReq.dir, gReq.name, gReq.raw, gReq.range)
    /\ stream' = StreamOf(gResp')
    /\ UNCHANGED <<gReq, ingestVars, nameVars, runVars, pathVars, env>>

\* The requests SpecStream draws: a name at the top of the store with no
\* Range header or one of a few, two of which list two ranges.
StreamRanges ==
    { NoHeader,
      Header(BytesEq \o <<"0", "-">>),
      Header(BytesEq \o <<"1", "-", "3">>),
      Header(BytesEq \o <<"9", "-">>),
      Header(BytesEq \o <<"0", "-", "1", ",", "3", "-", "3">>),
      Header(BytesEq \o <<"0", "-", ",", "1", "-", "3">>) }
StreamRequests ==
    { g \in [dir : {<<>>}, name : StoreNames,
             raw : UNION {UrlTails(n) : n \in StoreNames},
             range : StreamRanges] :
        g.raw \in UrlTails(g.name) }

InitStream == InitRange /\ gReq \in StreamRequests

NextStream ==
    \/ GetUploads
    \/ StreamOpen
    \/ StreamData
    \/ StreamEnd
    \/ ResponseCloses

\* SpecStream: one GET /uploads/:filename request with its body streamed
\* chunk by chunk to a client that may go away; a stream whose descriptor is
\* open keeps reading, into the response or into its buffer.
SpecStream ==
    /\ InitStream /\ [][NextStream]_vars
    /\ WF_vars(StreamOpen) /\ WF_vars(StreamData) /\ WF_vars(StreamEnd)

\* SpecRead: the two reader routes, GET /uploads/... and GET /watch/:filename,
\* each asked once against a store that earlier ingestions have filled.
ReadRequests ==
    StreamRequests \cup PackageRequests

InitRead ==
    /\ writer = [r \in Reqs |-> NoWriter]
    /\ env = NoHeader
    /\ \E size \in 0..MaxFileSize :
          files = [n \in StoreNames |->
                      IF n = FileName("a", <<".", "m", "p", "4">>) THEN File(FileBytes(size))
                      ELSE IF n = FileName("b", <<".", "t", "x", "t">>) THEN File(FileBytes(1))
                      ELSE IF n = FileName(".a", <<".", "m", "k", "v">>) THEN File(FileBytes(2))
                      ELSE NoFile]
    /\ \E published \in BOOLEAN :
          /\ dirs = IF published THEN {"a"} ELSE {}
          /\ seg = [d \in Stems |->
                       IF published /\ d = "a" THEN "complete" ELSE "none"]
          /\ master = [d \in Stems |->
                          IF published /\ d = "a" THEN <<masterPlaylist>>
                          ELSE <<>>]
    /\ gReq \in ReadRequests
    /\ gResp = NoResponse
    /\ watch = NoWatch
    /\ stream = NoStream
    /\ pathReq = NoPathReq
    /\ pathRes = NoPathRes
    /\ nameIn = NoNameIn
    /\ nameOut = NoNameOut
    /\ runs = NoRuns
    /\ outcome = NoOutcomes
    /\ pc = [r \in Reqs |-> "idle"]
    /\ req = [r \in Reqs |-> NoReq]
    /\ engine = [r \in Reqs |-> "notstarted"]
    /\ resp = [r \in Reqs |-> NoResp]
    /\ wrote = [r \in Reqs |-> FALSE]
    /\ jobOf = [n \in StoreNames |-> 0]
    /\ invoked = [r \in Reqs |-> <<>>]
    /\ gone = [r \in Reqs |-> FALSE]

NextRead ==
    \/ GetUploads
    \/ StreamOpen
    \/ StreamData
    \/ StreamEnd
    \/ \E name \in WatchNames : Watch(name)

SpecRead == InitRead /\ [][NextRead]_vars

\* SpecPath: one reader request for every decoded :filename parameter of up
\* to MaxSegs segments, against a store that holds 'a.mp4' with its package
\* and, beside uploadDir or not, another file 'a.mp4'.
PathSegments ==
    { DotDot, FileName("a", <<".", "m", "p", "4">>), FileName("b", <<".", "t", "x", "t">>), FileName("a", NoExt) }
RECURSIVE SegSeqs(_)
SegSeqs(n) ==
    IF n = 0 THEN {}
    ELSE {<<p>> : p \in PathSegments}
         \cup SegSeqs(n - 1)
         \cup {ps \o <<p>> : ps \in SegSeqs(n - 1), p \in PathSegments}

InitPath ==
    /\ writer = [r \in Reqs |-> NoWriter]
    /\ env = NoHeader
    /\ pathReq \in [filename : SegSeqs(MaxSegs), beside : BOOLEAN]
    /\ pathRes = NoPathRes
    /\ files = [n \in StoreNames |->
                   IF n \in {FileName("a", <<".", "m", "p", "4">>), FileName("b", <<".", "t", "x", "t">>)}
                   THEN File(FileBytes(2)) ELSE NoFile]
    /\ dirs = {"a"}
    /\ seg = [d \in Stems |-> IF d = "a" THEN "complete" ELSE "none"]
    /\ master = [d \in Stems |-> IF d = "a" THEN <<masterPlaylist>> ELSE <<>>]
    /\ gReq = NoGet
    /\ gResp = NoResponse
    /\ watch = NoWatch
    /\ stream = NoStream
    /\ nameIn = NoNameIn
    /\ nameOut = NoNameOut
    /\ runs = NoRuns
    /\ outcome = NoOutcomes
    /\ pc = [r \in Reqs |-> "idle"]
    /\ req = [r \in Reqs |-> NoReq]
    /\ engine = [r \in Reqs |-> "notstarted"]
    /\ resp = [r \in Reqs |-> NoResp]
    /\ wrote = [r \in Reqs |-> FALSE]
    /\ jobOf = [n \in StoreNames |-> 0]
    /\ invoked = [r \in Reqs |-> <<>>]
    /\ gone = [r \in Reqs |-> FALSE]

PathFrame ==
    UNCHANGED <<pathReq, ingestVars, stream, gReq, gResp, nameVars, runVars,
                env>>

\* The request goes to GET /uploads/:filename.
GetUploadsPath ==
    /\ pathRes.status = 0
    /\ pathRes' = UploadsPathAnswer(DiskOf(files, dirs, seg, master),
                                    pathReq.beside, pathReq.filename)
    /\ PathFrame

\* The request goes to GET /watch/:filename.
GetWatchPath ==
    /\ pathRes.status = 0
    /\ pathRes' = WatchPathAnswer(DiskOf(files, dirs, seg, master),
                                  pathReq.beside, pathReq.filename)
    /\ PathFrame

NextPath == GetUploadsPath \/ GetWatchPath

SpecPath == InitPath /\ [][NextPath]_vars

NextRange ==
    \/ GetUploads
    \/ StreamOpen
    \/ StreamData
    \/ StreamEnd

SpecRange == InitRange /\ [][NextRange]_vars

(***************************************************************************)
(* SpecName: the stored name of one ingestion, for every name drawn.       *)
(***************************************************************************)
\* The code units names are drawn from: some the class accepts, some not.
NameAlphabet == {"a", "Z", "7", ".", "-", "_", "/", " ", "%", "é", "~"}

RECURSIVE NameTexts(_)
\* The strings of at most n units.
NameTexts(n) ==
    IF n = 0 THEN {<<>>}
    ELSE NameTexts(n - 1)
         \cup {t \o <<c>> : t \in NameTexts(n - 1), c \in NameAlphabet}

\* The content-type headers of the remote response: absent, a bare type, a
\* type with a parameter, and two that name a property of Object.prototype.
NameContentTypes ==
    {"", "video/mp4", "text/plain; charset=utf-8", "constructor", "__proto__"}

\* The code units the URL parser leaves in the pathname of an http(s) URL:
\* the 85 printable ASCII units other than the double quote, '#', '<', '>',
\* '?', the backquote, '{', '}' and the backslash.  It drops TAB, LF and CR,
\* takes a backslash for a '/', ends the path at '?' and '#', and
\* percent-encodes every other unit: the controls, the space, U+007F and
\* all units from U+0080 up.
InPathname ==
    Digits \cup LowerCase \cup UpperCase \cup
    (Punctuation \ {" ", "U+0022", "#", "<", ">", "?", "U+005C", "U+0060",
                    "{", "}"})

\* The segments the URL parser resolves away: '.', '..' and their forms
\* with %2e or %2E for a dot.
DotForms == {<<".">>, <<"%", "2", "e">>, <<"%", "2", "E">>}
DotSegments == DotForms \cup {a \o b : a \in DotForms, b \in DotForms}

\* new URL(fileUrl).pathname: it starts with '/', holds only units the
\* parser leaves as they are and no dot segment.
IsPathname(text) ==
    /\ text # <<>> /\ text[1] = "/"
    /\ \A i \in 1..Len(text) : text[i] \in InPathname
    /\ LET parts == Split(text, "/")
       IN  \A i \in 1..Len(parts) : parts[i] \notin DotSegments

InitName ==
    /\ writer = [r \in Reqs |-> NoWriter]
    /\ env = NoHeader
    /\ nameIn \in [text : NameTexts(MaxNameLen), contentType : NameContentTypes]
    /\ nameOut = NoNameOut
    /\ files = [n \in StoreNames |-> NoFile]
    /\ dirs = {}
    /\ seg = [d \in Stems |-> "none"]
    /\ master = [d \in Stems |-> <<>>]
    /\ pc = [r \in Reqs |-> "idle"]
    /\ req = [r \in Reqs |-> NoReq]
    /\ engine = [r \in Reqs |-> "notstarted"]
    /\ resp = [r \in Reqs |-> NoResp]
    /\ wrote = [r \in Reqs |-> FALSE]
    /\ jobOf = [n \in StoreNames |-> 0]
    /\ invoked = [r \in Reqs |-> <<>>]
    /\ gone = [r \in Reqs |-> FALSE]
    /\ stream = NoStream
    /\ pathReq = NoPathReq
    /\ pathRes = NoPathRes
    /\ watch = NoWatch
    /\ gReq = NoGet
    /\ gResp = NoResponse
    /\ runs = NoRuns
    /\ outcome = NoOutcomes

\* POST /upload with nameIn.text as the file's originalname.
StoreUploadName ==
    /\ nameOut.via = "none"
    /\ nameOut' = [via |-> "upload", name |-> MulterFilename(nameIn.text)]
    /\ UNCHANGED <<nameIn, gReq, gResp, orchVars, runVars>>

\* POST /upload-url with nameIn.text as the URL's pathname.
StoreUrlName ==
    /\ nameOut.via = "none"
    /\ IsPathname(nameIn.text)
    /\ nameOut' = [via  |-> "uploadUrl",
                   name |-> UrlFilename(nameIn.text, nameIn.contentType)]
    /\ UNCHANGED <<nameIn, gReq, gResp, orchVars, runVars>>

NextName == StoreUploadName \/ StoreUrlName

SpecName == InitName /\ [][NextName]_vars

(***************************************************************************)
(* SpecMetrics: one URL ingestion run twice, the two runs differing only   *)
(* in the content-length header and in the time the download takes.       *)
(***************************************************************************)
\* parseInt(response.headers['content-length'], 10) || 0
UrlSize(header) ==
    LET n == IF header.present THEN ParseInt(header.text) ELSE NaN
    IN  IF n.nan \/ n.v = 0 THEN 0 ELSE n.v

\* A JavaScript number that need not be an integer: a fraction, NaN or an
\* infinity.
Fraction(num, den) == [kind |-> "finite", num |-> num, den |-> den]
NonFinite(kind) == [kind |-> kind, num |-> 0, den |-> 1]

\* (endTime - startTime) / 1000, in seconds
DownloadTime(elapsedMs) == Fraction(elapsedMs, 1000)

\* size / 1024 / downloadTime, in KB/s: a division by zero gives NaN for
\* 0 / 0 and an infinity otherwise.
DownloadSpeed(size, downloadTime) ==
    IF downloadTime.num = 0
    THEN IF size = 0 THEN NonFinite("NaN")
         ELSE IF size > 0 THEN NonFinite("Infinity")
         ELSE NonFinite("-Infinity")
    ELSE Fraction(size * downloadTime.den, 1024 * downloadTime.num)

\* JSON.stringify of a number: null for NaN and the infinities.
JsonNumber(x) == IF x.kind = "finite" THEN <<x>> ELSE <<>>

\* A toFixed that refuses a number that is not finite.
ToFixedThrowsNonFinite(x) == x.kind # "finite"

\* downloadSpeed.toFixed(2) in the log line: toFixed throws for no number.
ToFixedThrows(x) == x.kind \notin {"finite", "NaN", "Infinity", "-Infinity"}

\* One run of POST /upload-url for input `in`, the fetch, the write and (for
\* media) the encode succeeding: what it has stored, decided and answered
\* when it ends.
UrlOutcome(in, header, elapsedMs) ==
    LET mimeType == UrlMimeType(in.mime)
        size == UrlSize(header)
        downloadTime == DownloadTime(elapsedMs)
        downloadSpeed == DownloadSpeed(size, downloadTime)
        media == isMedia(mimeType)
    IN  IF ToFixedThrows(downloadSpeed)
        THEN [NoOutcome EXCEPT !.pc = "done",
                               !.status = 500, !.kind = "error",
                               !.name = in.name, !.body = Payload(1),
                               !.size = size]
        ELSE [pc |-> "done",
              status |-> 200,
              kind |-> IF media THEN "watchUrl" ELSE "fileUrl",
              media |-> media,
              name |-> in.name,
              body |-> Payload(1),
              size |-> size,
              downloadTime |-> JsonNumber(downloadTime),
              downloadSpeed |-> JsonNumber(downloadSpeed)]

\* The content-length headers and the elapsed times (ms; Date.now() is not
\* monotonic) the runs are drawn from.
ContentLengths ==
    { NoHeader, Header(<<"0">>), Header(<<"2">>), Header(<<"9", "9">>),
      Header(<<"x">>), Header(<<"-", "1">>) }
ElapsedMs == {0 - 5, 0, 1, 1500}

InitMetrics ==
    /\ writer = [r \in Reqs |-> NoWriter]
    /\ env = NoHeader
    /\ runs \in [in : UrlInputs,
                 a : [header : ContentLengths, elapsed : ElapsedMs],
                 b : [header : ContentLengths, elapsed : ElapsedMs]]
    /\ outcome = NoOutcomes
    /\ nameIn = NoNameIn
    /\ nameOut = NoNameOut
    /\ files = [n \in StoreNames |-> NoFile]
    /\ dirs = {}
    /\ seg = [d \in Stems |-> "none"]
    /\ master = [d \in Stems |-> <<>>]
    /\ pc = [r \in Reqs |-> "idle"]
    /\ req = [r \in Reqs |-> NoReq]
    /\ engine = [r \in Reqs |-> "notstarted"]
    /\ resp = [r \in Reqs |-> NoResp]
    /\ wrote = [r \in Reqs |-> FALSE]
    /\ jobOf = [n \in StoreNames |-> 0]
    /\ invoked = [r \in Reqs |-> <<>>]
    /\ gone = [r \in Reqs |-> FALSE]
    /\ stream = NoStream
    /\ pathReq = NoPathReq
    /\ pathRes = NoPathRes
    /\ watch = NoWatch
    /\ gReq = NoGet
    /\ gResp = NoResponse

\* The two runs are two histories of one request that are compared, each
\* the only request of a server of its own, with a store of its own; the
\* steps of a run are the turns of its handler, from one await to the next.
\* Run k continues after `await axios(...)`: it reads the name, the type and
\* the content-length of the response and starts the write.
RunFetched(k) ==
    /\ outcome[k].pc = "fetching"
    /\ outcome' = [outcome EXCEPT
                      ![k] = [@ EXCEPT !.pc = "downloading",
                                       !.name = runs.in.name,
                                       !.size = UrlSize(runs[k].header)]]
    /\ UNCHANGED <<runs, nameVars, gReq, gResp, orchVars>>

\* Run k continues after `await finished(writer)`, the body stored: it
\* computes the download time and the speed and logs them, decides Media or
\* Raw, and for a raw file answers; for media it starts the encode.
RunDownloaded(k) ==
    /\ outcome[k].pc = "downloading"
    /\ LET end == UrlOutcome(runs.in, runs[k].header, runs[k].elapsed)
       IN  outcome' = [outcome EXCEPT
                         ![k] = IF end.status = 200 /\ end.media
                                THEN [@ EXCEPT
                                        !.pc = "encoding",
                                        !.media = TRUE,
                                        !.body = end.body,
                                        !.downloadTime = end.downloadTime,
                                        !.downloadSpeed = end.downloadSpeed]
                                ELSE end]
    /\ UNCHANGED <<runs, nameVars, gReq, gResp, orchVars>>

\* Run k continues after the encode: the master playlist, then the answer.
RunEncoded(k) ==
    /\ outcome[k].pc = "encoding"
    /\ outcome' = [outcome EXCEPT
                      ![k] = UrlOutcome(runs.in, runs[k].header,
                                        runs[k].elapsed)]
    /\ UNCHANGED <<runs, nameVars, gReq, gResp, orchVars>>

NextMetrics ==
    \/ \E k \in RunIds : RunFetched(k)
    \/ \E k \in RunIds : RunDownloaded(k)
    \/ \E k \in RunIds : RunEncoded(k)

SpecMetrics == InitMetrics /\ [][NextMetrics]_vars


(***************************************************************************)
(* The claims about the transcode job (specification Spec).                *)
(***************************************************************************)
\* The output directory holds a master.m3u8.
MasterExists(d) == master[d] # <<>>

\* C1: in every reachable state, master.m3u8 exists in an asset's output
\* directory if and only if the job currently associated with that asset is
\* Published; no Pending, Running or Failed job has a master manifest on disk.
C1_ManifestIffPublished ==
    \A n \in StoreNames :
        jobOf[n] # 0 =>
            (MasterExists(hlsOutputDir(n)) <=> AssetJobState(n) = "Published")

\* C2: a request writes master.m3u8 only after its own FFmpeg command has
\* signalled 'end': never before the command is started, never while it is
\* running, never after it failed.
C2_ManifestAfterEngineEnd ==
    \A r \in Reqs : wrote[r] => engine[r] = "ended"

\* A request has written the manifest, its engine having ended.
C2_Witness ==
    \E r \in Reqs :
        /\ wrote[r] /\ engine[r] = "ended"
        /\ MasterExists(hlsOutputDir(req[r].name))

\* C3: when the engine reports an error for a job started by POST /upload,
\* neither the 'error' handler nor the catch block writes a master manifest
\* or removes a rendition file or directory, and the request completes with
\* status 500 and a JSON {error} body, not a watchUrl.
C3_UploadEngineFailure ==
    [][\A r \in Reqs :
          /\ (req[r].route = "upload" /\ engine[r] # "errored"
                  /\ engine'[r] = "errored")
                => (seg' = seg /\ dirs' = dirs /\ master' = master
                      /\ wrote'[r] = wrote[r])
          /\ (req[r].route = "upload" /\ pc[r] = "rejected" /\ pc'[r] # "rejected")
                => (/\ seg' = seg /\ dirs' = dirs /\ master' = master
                    /\ ~wrote'[r]
                    /\ pc'[r] = "done"
                    /\ resp'[r].status = 500
                    /\ resp'[r].kind = "error")]_vars

\* An upload whose engine failed after it had begun to write has been
\* answered 500, and the partial rendition files are still there.
C3_Witness ==
    \E r \in Reqs :
        /\ req[r].route = "upload" /\ engine[r] = "errored" /\ pc[r] = "done"
        /\ resp[r].status = 500 /\ resp[r].kind = "error"
        /\ seg[hlsOutputDir(req[r].name)] = "partial"
        /\ ~MasterExists(hlsOutputDir(req[r].name))

\* C4: at most one job per asset: the engine is started for an asset only
\* when the asset has no job yet or its previous job is Failed; it is not
\* started again while that job is Pending, Running or Published.
C4_NoSecondEncode ==
    [][\A r \in Reqs :
          (engine[r] = "notstarted" /\ engine'[r] = "running")
              => AssetJobState(req[r].name) \in {"None", "Failed"}]_vars

\* C5: never two engine invocations running at the same time against the
\* same output directory.
C5_OneEnginePerOutputDir ==
    \A d \in Stems : Cardinality(Running(d)) <= 1

\* C6: a reader that finds the master manifest (GET /watch answers with the
\* player page) finds every rendition playlist and segment of the package
\* written, and no encode running against the package.
C6_ReaderSeesCompletePackage ==
    watch.status = 200 => (watch.seg = "complete" /\ watch.running = 0)

(***************************************************************************)
(* The claims about GET /uploads/:filename (specification SpecRange).      *)
(***************************************************************************)
\* The request has been answered, it names an existing file whose type is a
\* media type, and it carries a Range header.
RangeOnMedia ==
    /\ gReq.dir = <<>>
    /\ gResp.status # 0
    /\ files[gReq.name].there
    /\ getMimeType(gReq.name) \in mediaMimeTypes
    /\ Truthy(gReq.range)

\* Such a request has been answered through the range branch of the handler:
\* its URL spells the extension so that the dispatch lets it through.
InRangeBranch == RangeOnMedia /\ ~GoesToStatic(gReq.raw)

\* The read stream of the response has delivered its bytes and is closed.
Streamed == stream.fd = "closed"

ReqFileSize == Len(files[gReq.name].data)
ReqStart == RangeStart(RangeParts(gReq.range.text))
ReqEnd == RangeEnd(RangeParts(gReq.range.text), ReqFileSize)

\* C7: a request for an existing media file with a Range whose parsed start
\* is >= the file size is answered 416, the body naming the start and the
\* file size, and no read stream is opened.
C7_StartBeyondFileIs416 ==
    (RangeOnMedia /\ ~ReqStart.nan /\ ReqStart.v >= ReqFileSize)
        => /\ gResp.status = 416
           /\ gResp.text.msg = "Requested range not satisfiable"
           /\ gResp.text.args = <<ReqStart, Num(ReqFileSize)>>
           /\ ~gResp.opened
           /\ gResp.body = <<>>

\* C8: a Range whose end is greater than fileSize - 1 is answered 416 and no
\* read is performed; the end is neither clamped nor passed through in a 206.
\* (Stated for a start inside the file, the case of 'bytes=0-99' on 50 bytes.)
C8_EndBeyondFileIs416 ==
    (InRangeBranch /\ ~ReqStart.nan /\ ~ReqEnd.nan
       /\ 0 <= ReqStart.v /\ ReqStart.v < ReqFileSize
       /\ ReqEnd.v > ReqFileSize - 1)
        => (gResp.status = 416 /\ ~gResp.opened)

\* C9: a Range whose start is greater than its end, or whose start is no
\* non-negative integer, is answered 416 with no read stream opened, and no
\* 206 carries a Content-Length that is zero, negative or not a number.
C9_BadStartIs416 ==
    /\ (InRangeBranch /\ (ReqStart.nan \/ ReqStart.v < 0 \/ NumGt(ReqStart, ReqEnd)))
          => (gResp.status = 416 /\ ~gResp.opened)
    /\ (InRangeBranch /\ gResp.status = 206)
          => (~gResp.contentLength[1].nan /\ gResp.contentLength[1].v > 0)

\* C10: for 0 <= start <= end < fileSize the answer is 206 with Content-Range
\* 'bytes start-end/fileSize', Accept-Ranges 'bytes', Content-Length
\* end-start+1, and the body is exactly the bytes start..end of the file.
C10_ValidRangeIs206 ==
    (InRangeBranch /\ ~ReqStart.nan /\ ~ReqEnd.nan
       /\ 0 <= ReqStart.v /\ ReqStart.v <= ReqEnd.v /\ ReqEnd.v < ReqFileSize)
        => /\ gResp.status = 206
           /\ gResp.contentRange =
                 <<[start |-> ReqStart, end |-> ReqEnd, size |-> ReqFileSize]>>
           /\ gResp.acceptRanges = "bytes"
           /\ gResp.contentLength = <<Num(ReqEnd.v - ReqStart.v + 1)>>
           /\ Streamed =>
                 gResp.body =
                    [i \in 1..(ReqEnd.v - ReqStart.v + 1) |->
                        files[gReq.name].data[ReqStart.v + i]]

\* 'bytes=1-3' on a file of at least 4 bytes: a window strictly inside it.
C10_Witness ==
    /\ InRangeBranch
    /\ ReqStart = Num(1) /\ ReqEnd = Num(3) /\ ReqFileSize >= 4
    /\ gResp.status = 206
    /\ Streamed
    /\ gResp.body = <<101, 102, 103>>


\* The request has been answered by the route handler for an existing file
\* of a media type.
ServedByHandler ==
    /\ gReq.dir = <<>>
    /\ gResp.status # 0
    /\ ~GoesToStatic(gReq.raw)
    /\ files[gReq.name].there
    /\ getMimeType(gReq.name) \in mediaMimeTypes

\* The Range header gives a start and omits the end: one '-', nothing after.
OpenEnded ==
    /\ Len(RangeParts(gReq.range.text)) = 2
    /\ RangeParts(gReq.range.text)[2] = <<>>

\* C11: without a Range header the answer is 200, Content-Length is the file
\* size and the body is the whole file; with 'bytes=N-' (N inside the file)
\* the end used is fileSize - 1.
C11_FullAndOpenEnded ==
    /\ (ServedByHandler /\ ~gReq.range.present)
          => /\ gResp.status = 200
             /\ gResp.contentLength = <<Num(ReqFileSize)>>
             /\ Streamed => gResp.body = files[gReq.name].data
    /\ (InRangeBranch /\ OpenEnded /\ ~ReqStart.nan
          /\ 0 <= ReqStart.v /\ ReqStart.v < ReqFileSize)
          => /\ gResp.status = 206
             /\ gResp.contentRange[1].end = Num(ReqFileSize - 1)
             /\ gResp.contentLength = <<Num(ReqFileSize - ReqStart.v)>>
             /\ Streamed =>
                   gResp.body =
                      [i \in 1..(ReqFileSize - ReqStart.v) |->
                          files[gReq.name].data[ReqStart.v + i]]

\* 'bytes=1-' on a file of at least 3 bytes.
C11_Witness ==
    /\ InRangeBranch /\ OpenEnded
    /\ ReqStart = Num(1) /\ ReqFileSize >= 3
    /\ gResp.status = 206
    /\ gResp.contentRange[1].end = Num(ReqFileSize - 1)
    /\ Streamed /\ Len(gResp.body) = ReqFileSize - 1

\* No Range header, a file of at least 2 bytes: the whole file.
C11_WitnessFull ==
    /\ ServedByHandler /\ ~gReq.range.present /\ ReqFileSize >= 2
    /\ gResp.status = 200
    /\ Streamed /\ Len(gResp.body) = ReqFileSize

(***************************************************************************)
(* The claims about which files GET /uploads serves, and how.              *)
(***************************************************************************)
\* The disk as the request finds it.
ReqDisk == DiskOf(files, dirs, seg, master)
ReqIsFile == PathIsFile(ReqDisk, gReq.dir, gReq.name)

\* The extensions of raw media accepted at ingestion, manifests and segments.
MediaAdjacentExts == {<<".", "m", "p", "4">>, <<".", "m", "k", "v">>, <<".", "w", "e", "b", "m">>, <<".", "a", "v", "i">>, <<".", "m", "o", "v">>, <<".", "m", "3", "u", "8">>, <<".", "t", "s">>}

\* C12: the answer is 404 when the resolved file does not exist, and 400
\* only when the file exists and is no raw media asset, manifest or segment:
\* an existing .mp4, .mkv, .webm, .avi, .mov, .m3u8 or .ts is never answered
\* 400.
C12_NotFoundAndTypeCheck ==
    gResp.status # 0 =>
        /\ ~ReqIsFile => gResp.status = 404
        /\ gResp.status = 400
              => /\ ReqIsFile
                 /\ ToLowerCase(ExtName(gReq.name)) \notin MediaAdjacentExts

\* The request asks for a file of the published package of 'a.mp4'.
PackageRequest ==
    /\ gReq.dir = <<FileName(hlsOutputDir(FileName("a", <<".", "m", "p", "4">>)), NoExt)>>
    /\ ReqIsFile

\* C13: a request for the master manifest, a rendition playlist or a segment
\* of a published package is answered by the same range-aware handler as raw
\* media, not by another serving path: 200 without a Range header, 206 with
\* Content-Range for a valid one.
C13_PackageThroughRangeHandler ==
    (PackageRequest /\ gResp.status # 0) =>
        /\ gResp.via = "handler"
        /\ ~gReq.range.present => gResp.status = 200
        /\ gReq.range = Header(BytesEq \o <<"0", "-", "1">>)
              => (gResp.status = 206 /\ gResp.contentRange # <<>>)

\* C14: for an asset whose job is Published, the manifest URL of the player
\* page resolves to the master.m3u8 the orchestrator wrote into the asset's
\* output directory, and a GET of it is answered 200 with Content-Type
\* application/x-mpegURL.
C14_WatchManifestResolves ==
    [][ (/\ gResp.status = 0 /\ gResp'.status # 0
         /\ AssetJobState(watch.name) = "Published")
        => /\ gReq'.dir = <<FileName(hlsOutputDir(watch.name), NoExt)>>
           /\ gReq'.name = MasterName
           /\ gResp'.status = 200
           /\ gResp'.contentType = "application/x-mpegURL" ]_vars

(***************************************************************************)
(* The claims about the watch page and about ingestion.                    *)
(***************************************************************************)
\* Request r has been answered with a success body that carries a watchUrl,
\* and no other ingestion has arrived.
OnlyIngestionGaveWatchUrl(r) ==
    /\ resp[r].status = 200 /\ resp[r].kind = "watchUrl"
    /\ \A q \in Reqs \ {r} : pc[q] = "idle"

\* C15: after an ingestion has answered with a watchUrl, a GET of that
\* watchUrl with no ingestion in between is answered 200 with the player
\* page, whatever media type was declared.
C15_WatchUrlWorks ==
    [][ \A r \in Reqs :
          (/\ OnlyIngestionGaveWatchUrl(r)
           /\ watch.status = 0 /\ watch'.status # 0
           /\ watch'.name = req[r].name)
          => watch'.status = 200 ]_vars

\* The asset file of name n is in the store.
AssetStored(n) == n \in StoreNames /\ files[n].there

\* The asset of name n was classified Media at its ingestion, which gave it
\* a packaging job.
MediaAsset(n) == n \in StoreNames /\ AssetJobState(n) # "None"

\* C16: GET /watch/:filename is answered 404 when the asset file is missing;
\* 400 when the asset is there and is a media asset neither by its ingestion
\* nor by its name; 404 'Streaming not available for this file.' when the
\* asset is there, is Media, and master.m3u8 is not in its output directory
\* (job not yet started, Running or Failed); and with the player page only
\* when the asset and master.m3u8 are on disk.
C16_WatchAnswers ==
    [][ (watch.status = 0 /\ watch'.status # 0) =>
          LET n == watch'.name
          IN  /\ ~AssetStored(n) => watch'.status = 404
              /\ (/\ AssetStored(n)
                  /\ ~MediaAsset(n)
                  /\ getMimeType(n) \notin mediaMimeTypes)
                  => watch'.status = 400
              /\ (/\ AssetStored(n)
                  /\ MediaAsset(n)
                  /\ ~MasterExists(hlsOutputDir(n)))
                  => /\ watch'.status = 404
                     /\ watch'.message = "Streaming not available for this file."
              /\ watch'.status = 200
                  => /\ AssetStored(n)
                     /\ MasterExists(hlsOutputDir(n))
                     /\ watch'.message = "player page" ]_vars

\* The store holds, under the name of request q, exactly the bytes q sent.
StoredAsset(q) ==
    /\ req[q].name \in StoreNames
    /\ files[req[q].name] = File(Payload(q))

\* C17: an ingestion never overwrites an existing asset: once the bytes of
\* an ingestion are stored under its name, no later ingestion (whose name
\* sanitizes to the same string) changes them.
C17_NoOverwrite ==
    [][ \A q \in Reqs :
          StoredAsset(q) => files'[req[q].name] = files[req[q].name] ]_vars

\* Request r arrives in this step and carries no input: no file, no fileUrl.
ArrivesWithoutInput(r) ==
    /\ pc[r] = "idle" /\ pc'[r] # "idle"
    /\ req'[r].name \notin StoreNames

\* C19: an ingestion request without input is answered 400 with a JSON
\* {error} body in the step it arrives, and that step fetches nothing,
\* writes nothing to the asset store and starts no engine.
C19_NoInputIs400 ==
    [][ \A r \in Reqs :
          ArrivesWithoutInput(r)
          => /\ resp'[r].status = 400 /\ resp'[r].kind = "error"
             /\ resp'[r].message = IF req'[r].route = "upload"
                                   THEN "No file uploaded."
                                   ELSE "No URL provided."
             /\ pc'[r] = "done"
             /\ engine' = engine /\ jobOf' = jobOf
             /\ files' = files /\ dirs' = dirs
             /\ seg' = seg /\ master' = master ]_vars

\* Both routes have answered a request without input.
C19_Witness ==
    /\ \E r \in Reqs : req[r] = [NoReq EXCEPT !.route = "upload"]
                         /\ resp[r].status = 400
    /\ \E r \in Reqs : req[r] = [NoReq EXCEPT !.route = "uploadUrl"]
                         /\ resp[r].status = 400

\* C20 (specification SpecEnv): a POST /upload whose file exceeds the size
\* limit is answered 413 with an error message that contains the limit in
\* human-readable form ('500 MB' by default, '1000 Bytes' for a limit of
\* 1000); it is never answered with a success body and never starts a
\* transcode job.
C20_TooLargeIs413 ==
    \A r \in Reqs :
        (req[r].route = "upload" /\ ExceedsLimit(req[r].size))
        => /\ engine[r] = "notstarted"
           /\ \A n \in StoreNames : jobOf[n] # r
           /\ pc[r] \in {"uploading", "done", "crashed"}
           /\ pc[r] = "done"
                => /\ resp[r].status = 413
                   /\ resp[r].kind = "error"
                   /\ resp[r].message = "File is too large. Maximum size is ${formatBytes(MAX_UPLOAD_SIZE)}."
                   /\ resp[r].detail =
                         IF env.present
                         THEN <<[nan |-> FALSE, whole |-> 1000,
                                 hundredths |-> 0, unit |-> "Bytes"]>>
                         ELSE <<[nan |-> FALSE, whole |-> 500,
                                 hundredths |-> 0, unit |-> "MB"]>>

\* An upload over the default limit has been answered.
C20_Witness ==
    \E r \in Reqs :
        /\ ~env.present
        /\ req[r].route = "upload" /\ ExceedsLimit(req[r].size)
        /\ isMedia(req[r].mime)
        /\ resp[r].status = 413

\* An upload over a limit set by the environment has been answered.
C20_WitnessEnv ==
    \E r \in Reqs :
        /\ env.present
        /\ req[r].route = "upload" /\ req[r].size = 1001
        /\ resp[r].status = 413

(***************************************************************************)
(* The claim about stored names (specification SpecName).                  *)
(***************************************************************************)
\* C18: sanitizeFilename returns a string of the same length that keeps
\* every character of [A-Za-z0-9._-] and has '_' in the place of every other
\* one; so the stored name of an asset created by POST /upload or POST
\* /upload-url contains only characters of [A-Za-z0-9._-].
C18_SanitizedNames ==
    /\ nameOut.via = "upload"
          => /\ Len(nameOut.name) = Len(nameIn.text)
             /\ \A i \in 1..Len(nameIn.text) :
                   nameOut.name[i] = IF nameIn.text[i] \in SafeChars
                                     THEN nameIn.text[i] ELSE "_"
    /\ nameOut.via # "none"
          => \A i \in 1..Len(nameOut.name) : nameOut.name[i] \in SafeChars

\* An original name with two characters outside the class and one inside.
C18_Witness ==
    /\ nameOut.via = "upload"
    /\ nameIn.text = <<" ", "a", "é">>
    /\ nameOut.name = <<"_", "a", "_">>

\* A URL whose path has no last segment: the default name with the
\* extension of the content type.
C18_WitnessUrl ==
    /\ nameOut.via = "uploadUrl"
    /\ nameIn.text = <<"/">> /\ nameIn.contentType = "video/mp4"
    /\ Len(nameOut.name) = 19

(***************************************************************************)
(* The claims about the failure paths of ingestion.                        *)
(***************************************************************************)
\* The fetch of request r fails in this step, no byte of the body received.
FetchFails(r) == pc[r] = "fetching" /\ pc'[r] = "done"

\* C21: a POST /upload-url whose remote fetch fails before any body is
\* received is answered 500 {error: 'Failed to download file from the
\* provided URL.'}, and the step creates no file in the asset store, starts
\* no engine and writes no manifest.
C21_FetchFailureIs500 ==
    [][ \A r \in Reqs :
          FetchFails(r)
          => /\ resp'[r] = Json(500, "error",
                                "Failed to download file from the provided URL.")
             /\ files' = files /\ dirs' = dirs
             /\ seg' = seg /\ master' = master
             /\ engine' = engine /\ jobOf' = jobOf ]_vars

\* A URL request has been answered 500 and nothing is stored under its name.
C21_Witness ==
    \E r \in Reqs :
        /\ req[r].route = "uploadUrl" /\ req[r].name \in StoreNames
        /\ resp[r].status = 500
        /\ ~files[req[r].name].there

\* C22: every accepted ingestion request eventually receives exactly one
\* HTTP response, on every failure path as on success; a remote body that
\* errors or stalls after the download has started still leads to an error
\* response.
C22_EveryRequestAnswered ==
    /\ \A r \in Reqs : (pc[r] # "idle") ~> (resp[r].status # 0)
    /\ [][ \A r \in Reqs : resp[r].status # 0 => resp'[r] = resp[r] ]_vars

\* C23: a URL ingestion whose remote body is larger than the maximum upload
\* size fails as a unit: it is never answered with a success body and never
\* starts a transcode job.
C23_UrlTooLargeFails ==
    \A r \in Reqs :
        (req[r].route = "uploadUrl" /\ ExceedsLimit(req[r].size))
        => /\ resp[r].status # 200
           /\ engine[r] = "notstarted"
           /\ \A n \in StoreNames : jobOf[n] # r

\* The complete bodies: what some request sends or fetches, whole.
CompleteBodies == {File(Payload(q)) : q \in Reqs}

\* Request r sends a success body in this step.
AnswersSuccess(r) == resp[r].status = 0 /\ resp'[r].status = 200

\* C24: a success response references only a completely persisted asset:
\* when it is sent, the file under the asset's name holds a whole body (no
\* partially written file) and, for a media asset, master.m3u8 is written.
C24_SuccessAfterPersisted ==
    [][ \A r \in Reqs :
          AnswersSuccess(r)
          => /\ files'[req[r].name] \in CompleteBodies
             /\ resp'[r].kind = "watchUrl"
                  => MasterExists(hlsOutputDir(req[r].name))' ]_vars

(***************************************************************************)
(* The claims about classification.                                        *)
(***************************************************************************)
\* The file of request r is stored in this step and its handler goes on.
Classifies(r) ==
    /\ pc[r] \in {"uploading", "downloading"}
    /\ pc'[r] \in {"encoding", "done"}
    /\ resp'[r].status \in {0, 200}

\* C25: an asset is Media exactly when its declared MIME type is in
\* mediaMimeTypes: the engine is started, and the answer carries watchUrl,
\* for Media assets only; a Raw asset is answered with fileUrl and causes no
\* output directory, no engine run and no manifest write.
C25_MediaIffDeclaredType ==
    /\ [](\A r \in Reqs :
            /\ engine[r] # "notstarted" => req[r].mime \in mediaMimeTypes
            /\ resp[r].kind = "watchUrl" => req[r].mime \in mediaMimeTypes
            /\ resp[r].kind = "fileUrl" => req[r].mime \notin mediaMimeTypes)
    /\ [][ \A r \in Reqs :
             Classifies(r)
             => IF req[r].mime \in mediaMimeTypes
                THEN /\ engine'[r] = "running"
                     /\ hlsOutputDir(req[r].name) \in dirs'
                     /\ resp'[r].status = 0
                ELSE /\ resp'[r].status = 200 /\ resp'[r].kind = "fileUrl"
                     /\ dirs' = dirs /\ engine' = engine /\ jobOf' = jobOf
                     /\ seg' = seg /\ master' = master ]_vars

\* A Raw asset has been answered with fileUrl and a Media asset with
\* watchUrl.
C25_Witness ==
    /\ \E r \in Reqs : resp[r].kind = "fileUrl" /\ req[r].mime = "text/plain"
    /\ \E r \in Reqs : resp[r].kind = "watchUrl" /\ req[r].mime = "video/mkv"

\* URL request r is under way and its remote response carried no
\* content-type header (no drawn header names the generic type itself).
NoContentType(r) ==
    /\ req[r].route = "uploadUrl" /\ req[r].name \in StoreNames
    /\ req[r].mime = UrlMimeType("")

\* C26: when the remote response has no content-type header, the MIME type
\* of a URL ingestion is derived from the extension of the file name, so a
\* .mp4 URL without content type is Media: its type is the type of its
\* extension and it is not answered as a Raw asset.
C26_TypeFromExtension ==
    \A r \in Reqs :
        (NoContentType(r) /\ getMimeType(req[r].name) \in mediaMimeTypes)
        => /\ req[r].mime = getMimeType(req[r].name)
           /\ resp[r].kind # "fileUrl"

\* Upload r declares a type that is not in the allow-list.
DeclaresUnsupported(r) ==
    /\ req[r].route = "upload" /\ req[r].name \in StoreNames
    /\ req[r].mime \notin allowedMimeTypes

\* C27: a POST /upload whose declared MIME type is not in the allow-list is
\* answered 400 with error 'File type not supported!'; its file is not
\* persisted and no transcode job is started.
C27_UnsupportedTypeIs400 ==
    /\ [](\A r \in Reqs :
            DeclaresUnsupported(r)
            => /\ resp[r] = Json(400, "error", "File type not supported!")
               /\ engine[r] = "notstarted"
               /\ \A n \in StoreNames : jobOf[n] # r)
    /\ [][ \A r \in Reqs :
             (pc[r] = "idle" /\ DeclaresUnsupported(r)')
             => (files' = files /\ dirs' = dirs) ]_vars

\* An upload of an unsupported type has been answered and the store is
\* empty.
C27_Witness ==
    /\ \E r \in Reqs : DeclaresUnsupported(r) /\ resp[r].status = 400
    /\ \A n \in StoreNames : ~files[n].there

(***************************************************************************)
(* The claim about the download metrics (specification SpecMetrics).       *)
(***************************************************************************)
\* C28: download time and throughput do not affect control flow: two runs
\* of the same request that differ only in elapsed download time and in the
\* content-length header end with the same status code, the same persisted
\* file and the same Media/Raw decision.
C28_MetricsAreAdvisory ==
    (outcome["a"].status # 0 /\ outcome["b"].status # 0)
    => /\ outcome["a"].status = outcome["b"].status
       /\ outcome["a"].kind = outcome["b"].kind
       /\ outcome["a"].media = outcome["b"].media
       /\ outcome["a"].name = outcome["b"].name
       /\ outcome["a"].body = outcome["b"].body

\* Two ended runs whose metrics differ: one took no measurable time (its
\* throughput is not finite), the other 1.5 s with another content-length.
C28_Witness ==
    /\ outcome["a"].status = 200 /\ outcome["b"].status = 200
    /\ runs.a.elapsed = 0 /\ runs.b.elapsed = 1500
    /\ outcome["a"].size = 2 /\ outcome["b"].size = 99
    /\ outcome["a"].downloadSpeed = <<>>
    /\ outcome["b"].downloadSpeed = <<Fraction(99000, 1536000)>>

(***************************************************************************)
(* The claims about the ladder and the engine (specification Spec).        *)
(***************************************************************************)
\* C29: for every job that reaches Published, the master manifest lists
\* exactly the three ladder renditions, once each and in ladder order (720p,
\* 480p, 360p), each entry with BANDWIDTH equal to the bitrate in bits per
\* second (2800000, 1400000, 800000), its RESOLUTION and the name of the
\* rendition's playlist file.
C29_MasterListsLadder ==
    \A r \in Reqs :
        JobState(r) = "Published"
        => /\ Len(master[hlsOutputDir(req[r].name)]) = 1
           /\ master[hlsOutputDir(req[r].name)][1].streams =
                 << [bandwidth  |-> Num(2800000),
                     resolution |-> "1280x720",
                     uri        |-> FileName("720p", <<".", "m", "3", "u", "8">>)],
                    [bandwidth  |-> Num(1400000),
                     resolution |-> "854x480",
                     uri        |-> FileName("480p", <<".", "m", "3", "u", "8">>)],
                    [bandwidth  |-> Num(800000),
                     resolution |-> "640x360",
                     uri        |-> FileName("360p", <<".", "m", "3", "u", "8">>)] >>

\* A job is Published and its request answered with the player URL.
C29_Witness ==
    \E r \in Reqs :
        /\ JobState(r) = "Published"
        /\ pc[r] = "done"
        /\ resp[r].status = 200
        /\ master[hlsOutputDir(req[r].name)] # <<>>

\* C30: each media ingestion request invokes the encoding engine exactly
\* once, with all three rendition outputs attached to that one invocation,
\* and never again for that request, whether the invocation succeeds or
\* fails (no automatic retry): a request has at most one invocation ever, a
\* request whose job has left Pending has exactly one, and it carries the
\* 720p, 480p and 360p outputs.
C30_EngineInvokedOnce ==
    /\ [](\A r \in Reqs :
          /\ Len(invoked[r]) <= 1
          /\ (JobState(r) # "Pending" \/ resp[r].kind = "watchUrl")
             => /\ Len(invoked[r]) = 1
                /\ [i \in 1..3 |-> <<invoked[r][1][i].output,
                                     invoked[r][1][i].size,
                                     invoked[r][1][i].videoBitrate>>] =
                      << <<FileName("720p", <<".", "m", "3", "u", "8">>), "1280x720",
                           <<"2", "8", "0", "0", "k">> >>,
                         << FileName("480p", <<".", "m", "3", "u", "8">>), "854x480",
                           <<"1", "4", "0", "0", "k">> >>,
                         << FileName("360p", <<".", "m", "3", "u", "8">>), "640x360",
                           <<"8", "0", "0", "k">> >> >>
                /\ Len(invoked[r][1]) = 3)
    /\ [][\A r \in Reqs :
             invoked'[r] # invoked[r] => engine[r] = "notstarted"]_vars

\* An invocation failed and its request was answered 500 with the engine
\* run once; another request's invocation succeeded and was answered.
C30_Witness ==
    /\ \E r \in Reqs :
          /\ engine[r] = "errored"
          /\ pc[r] = "done"
          /\ resp[r].status = 500
          /\ Len(invoked[r]) = 1
    /\ \E r \in Reqs :
          /\ engine[r] = "ended"
          /\ pc[r] = "done"
          /\ resp[r].kind = "watchUrl"
          /\ Len(invoked[r]) = 1

(***************************************************************************)
(* The claim about a client that goes away (specification SpecCancel).     *)
(***************************************************************************)
\* C31: once the encoding engine has been started for a job, a disconnect
\* of the triggering client does not stop it: the disconnect changes nothing
\* of the engine, the handler or the package; the engine of a request whose
\* client is gone still runs to its end; and when it ends with success the
\* master manifest is written and the job reaches Published.  The two
\* promises are those of a server that keeps running: they end where the
\* process ends on the uncaught exception of another request's download.
C31_DisconnectDoesNotStopEngine ==
    /\ [][\A r \in Reqs :
             gone'[r] # gone[r]
             => /\ engine' = engine
                /\ pc' = pc
                /\ seg' = seg
                /\ master' = master
                /\ wrote' = wrote]_vars
    /\ \A r \in Reqs :
          (gone[r] /\ engine[r] \in {"running", "writing"})
          ~> (~Alive \/ engine[r] \in {"ended", "errored"})
    /\ \A r \in Reqs :
          (gone[r] /\ engine[r] = "ended")
          ~> (\/ ~Alive
              \/ /\ JobState(r) = "Published"
                 /\ master[hlsOutputDir(req[r].name)] = <<masterPlaylist>>)

\* The client went away during the encode and the job is Published, the
\* handler having sent its answer into the closed connection.
C31_Witness ==
    \E r \in Reqs :
        /\ gone[r]
        /\ JobState(r) = "Published"
        /\ pc[r] = "done"
        /\ resp[r].kind = "watchUrl"

(***************************************************************************)
(* The claim about a reader that goes away (specification SpecStream).     *)
(***************************************************************************)
\* C32: when the client of a GET /uploads/:filename request disconnects
\* while the body is being streamed, the read stream opened for that request
\* is eventually closed: no file handle stays open for a request whose
\* connection is gone.
C32_HandleReleasedOnDisconnect ==
    (stream.client = "gone" /\ stream.fd = "open") ~> (stream.fd = "closed")

(***************************************************************************)
(* The claim about the reader routes (specification SpecRead).             *)
(***************************************************************************)
\* C33: GET /watch/:filename and GET /uploads/:filename leave the asset
\* store unchanged: after any such request, whatever its status, the files
\* and directories under the asset root and their contents are the same as
\* before it.
C33_ReadersLeaveStoreUnchanged ==
    [][(watch' # watch \/ gResp' # gResp)
       => /\ files' = files
          /\ dirs' = dirs
          /\ seg' = seg
          /\ master' = master]_vars

\* Both reader routes have answered against a published asset: the player
\* page was sent and a GET below /uploads got its bytes.
C33_Witness ==
    /\ watch.status = 200
    /\ gResp.status \in {200, 206}
    /\ files[FileName("a", <<".", "m", "p", "4">>)].there
    /\ master["a"] = <<masterPlaylist>>

(***************************************************************************)
(* The claim about a Range header of several ranges (SpecRead).            *)
(***************************************************************************)
\* The header lists more than one range: a comma separates them.
MultiRange ==
    /\ gReq.range.present
    /\ \E i \in 1..Len(gReq.range.text) : gReq.range.text[i] = ","
\* The first listed range, as 'start-end' parts, and its bounds in the file.
FirstListed == Split(Split(ReplaceFirst(gReq.range.text, BytesEq), ",")[1], "-")
FirstListedStart == ParseInt(FirstListed[1])
FirstListedEnd ==
    IF Len(FirstListed) >= 2 /\ FirstListed[2] # <<>>
    THEN ParseInt(FirstListed[2])
    ELSE Num(ReqFileSize - 1)

\* C34: a Range header that lists more than one range (bytes=0-10,20-30) is
\* answered either with 416 or with a single-range 206 carrying one
\* Content-Range; never with a multipart response and never with bytes
\* outside the first listed range.
C34_MultiRangeIsSingleOr416 ==
    (InRangeBranch /\ MultiRange)
    => /\ gResp.status \in {206, 416}
       /\ gResp.status = 206
          => /\ Len(gResp.contentRange) = 1
             /\ gResp.contentType = getMimeType(gReq.name)
             /\ ~FirstListedStart.nan /\ ~FirstListedEnd.nan
             /\ \E i \in FirstListedStart.v..FirstListedEnd.v :
                   \E j \in (i - 1)..FirstListedEnd.v :
                       gResp.body = SubSeq(files[gReq.name].data, i + 1, j + 1)

(***************************************************************************)
(* The claim about the resolved path (specification SpecPath).             *)
(***************************************************************************)
\* C35: for every :filename value a client can send to GET /uploads/:filename
\* or GET /watch/:filename, values that decode to '..' segments or path
\* separators included, the path that is checked, stat-ed and read lies
\* inside the asset root; no request reads a file outside it.
C35_PathsStayInsideRoot ==
    pathRes.status # 0
    => /\ \A i \in 1..Len(pathRes.checked) : InsideRoot(pathRes.checked[i])
       /\ \A i \in 1..Len(pathRes.stated) : InsideRoot(pathRes.stated[i])
       /\ \A i \in 1..Len(pathRes.read) : InsideRoot(pathRes.read[i])

(***************************************************************************)
(* The claims about the package directory (specification Spec).            *)
(***************************************************************************)
\* C36: two distinct assets never share an outputDir: for any two different
\* stored asset ids for which a job was started (two names that differ only
\* in their extension, say) the package directories derived by dropping the
\* extension are different, and no outputDir is the storage path of a stored
\* asset.
C36_OutputDirsAreDistinct ==
    /\ \A n1, n2 \in StoreNames :
          (n1 # n2 /\ files[n1].there /\ files[n2].there
             /\ jobOf[n1] # 0 /\ jobOf[n2] # 0)
          => hlsOutputDir(n1) # hlsOutputDir(n2)
    /\ \A n \in StoreNames :
          (files[n].there /\ jobOf[n] # 0)
          => \A m \in StoreNames :
                files[m].there => m # FileName(hlsOutputDir(n), NoExt)

\* The file of this name is being written by an ingestion request.
BeingWritten(name) ==
    \E r \in Reqs :
        /\ req[r].name = name
        /\ \/ pc[r] = "uploading"
           \/ pc[r] \in {"downloading", "hung"} /\ writer[r].fd = "open"

\* C37 (specification SpecServe): an asset becomes servable only when its
\* ingestion has completed: a GET /uploads/:filename issued while the file of
\* that name is still being written by POST /upload or POST /upload-url never
\* gets a 200 or 206.
C37_NotServedWhileWritten ==
    [][(gResp.status = 0 /\ gResp'.status # 0 /\ BeingWritten(gReq'.name))
       => gResp'.status \notin {200, 206}]_vars

\* C38 (specification Spec): starting a job for an asset whose outputDir
\* already exists, left by an earlier attempt, raises no error at the
\* directory-creation step and leaves the files already in that directory in
\* place until the engine overwrites them: the step that starts the job goes
\* on to the encode and changes neither the directories nor what they hold.
C38_ExistingOutputDirIsKept ==
    [][\A r \in Reqs :
          (invoked'[r] # invoked[r] /\ hlsOutputDir(req[r].name) \in dirs)
          => /\ pc'[r] = "encoding"
             /\ engine'[r] = "running"
             /\ resp'[r] = NoResp
             /\ dirs' = dirs
             /\ seg' = seg
             /\ master' = master]_vars

\* A job has just been started in a directory that an earlier job filled:
\* its engine has written nothing yet, the package of the earlier job and
\* its master playlist are still there.
C38_Witness ==
    \E r \in Reqs :
        /\ pc[r] = "encoding"
        /\ engine[r] = "running"
        /\ hlsOutputDir(req[r].name) \in dirs
        /\ seg[hlsOutputDir(req[r].name)] = "complete"
        /\ master[hlsOutputDir(req[r].name)] = <<masterPlaylist>>
        /\ \E q \in Reqs \ {r} :
              /\ JobState(q) = "Published"
              /\ hlsOutputDir(req[q].name) = hlsOutputDir(req[r].name)
=============================================================================
